---- MODULE Spec2Model ----
(***************************************************************************)
(* Model of the DocuExpress repositories (src/ARCHIVOS/database.py):       *)
(* PapeleriaRepository (shops and per-shop prices), TramiteRepository      *)
(* (transactions and their aggregates) and AnalyticsRepository.            *)
(*                                                                         *)
(* Tables are sequences (or bags) of rows.  Money is kept in whole units   *)
(* (the code uses floats).  Text is a sequence of one-character strings so *)
(* that str.strip(), str.upper(), float() and strptime() are computed, not *)
(* assumed.                                                                *)
(***************************************************************************)
EXTENDS Integers, Sequences, FiniteSets, Bags, TLC

VARIABLES
    papelerias,   \* table Papeleria: row i has id i
    precios,      \* table PapeleriaPrecio: a bag of rows (ids left out)
    tramites,     \* table Tramite
    nextTramite,  \* next autoincrement id of table Tramite
    gastos,       \* table Gasto
    tramiteCostos, \* table TramiteCosto
    proveedores,  \* table Proveedor
    enCurso,      \* the add calls in flight: the position of each
    hoy,          \* date.today()
    llamada,      \* the last repository call: its name and arguments
    ret,          \* what the last repository call returned or raised
    rt,           \* monitor of an add / delete / add sequence on one name
    ultimo,       \* monitor: the last price accepted for each (shop, type)
    previo        \* monitor: the store as it was before the last delete

vars == <<papelerias, precios, tramites, nextTramite, gastos, tramiteCostos,
          proveedores, enCurso, hoy, llamada, ret, rt, ultimo, previo>>

(***************************************************************************)
(* Bounds of the model.                                                    *)
(***************************************************************************)
MaxPapelerias == 3
MaxTramites == 2
MaxGastos == 1

Users == {1, 2}
PapeleriaIds == 1..MaxPapelerias

\* Shop names given to add / update_name.
Nombres ==
    { <<"a">>, <<"A">>, <<" ", "a">>, <<"a", " ">>, <<"b">>, <<"B", " ">> }

\* Transaction types.
TiposTramite == {"ACTA", "CURP"}

None == [none |-> TRUE]

\* An optional number (None or a value) and an optional list.
Ninguno == [es_none |-> TRUE, v |-> 0]
Algun(x) == [es_none |-> FALSE, v |-> x]
NingunaLista == [es_none |-> TRUE, v |-> <<>>]

(***************************************************************************)
(* Text: str.strip() and str.upper().                                      *)
(***************************************************************************)
IsSpace(c) == c = " "

UpperChar(c) ==
    CASE c = "a" -> "A"
      [] c = "b" -> "B"
      [] OTHER -> c

Upper(s) == [i \in 1..Len(s) |-> UpperChar(s[i])]

RECURSIVE LStrip(_)
LStrip(s) ==
    IF s = <<>> THEN s
    ELSE IF IsSpace(Head(s)) THEN LStrip(Tail(s)) ELSE s

RECURSIVE RStrip(_)
RStrip(s) ==
    IF s = <<>> THEN s
    ELSE IF IsSpace(s[Len(s)]) THEN RStrip(SubSeq(s, 1, Len(s) - 1)) ELSE s

Strip(s) == RStrip(LStrip(s))

\* A plausible slip: the name is trimmed but its case is kept.
NormalizarSinUpper(nombre) == Strip(nombre)

\* nombre.strip().upper()
Normalizar(nombre) == Upper(Strip(nombre))

(***************************************************************************)
(* Papeleria queries.                                                      *)
(***************************************************************************)
\* Papeleria.query.filter_by(nombre=, user_id=, is_active=): the matching ids.
PapeleriasConNombre(nombre, user_id, activa) ==
    { i \in 1..Len(papelerias) :
        /\ papelerias[i].nombre = nombre
        /\ papelerias[i].user_id = user_id
        /\ papelerias[i].is_active = activa }

\* A plausible slip: is_active is not part of the lookup.
PapeleriaDeSinActiva(papeleria_id, user_id) ==
    { i \in 1..Len(papelerias) :
        i = papeleria_id /\ papelerias[i].user_id = user_id }

\* Papeleria.query.filter_by(id=, user_id=, is_active=True).first()
PapeleriaActivaDe(papeleria_id, user_id) ==
    { i \in 1..Len(papelerias) :
        /\ i = papeleria_id
        /\ papelerias[i].user_id = user_id
        /\ papelerias[i].is_active }

(***************************************************************************)
(* Monitor of the sequence add(X), delete(that shop), add(X): an           *)
(* observer of the calls, no part of the program's state.                  *)
(*   fase 1: the last call was an add that inserted row id                 *)
(*   fase 2: ... followed by delete(id) by the same tenant                 *)
(*   fase 3: ... followed by add of the same normalized name               *)
(***************************************************************************)
RtCero == [fase |-> 0, id |-> 0, user_id |-> 0, nombre |-> <<>>]

RtTrasAdd(nn, user_id, como, id) ==
    IF rt.fase = 2 /\ rt.user_id = user_id /\ rt.nombre = nn
    THEN [rt EXCEPT !.fase = 3]
    ELSE IF como = "creada"
         THEN [fase |-> 1, id |-> id, user_id |-> user_id, nombre |-> nn]
         ELSE RtCero

RtTrasDelete(papeleria_id, user_id) ==
    IF rt.fase = 1 /\ rt.id = papeleria_id /\ rt.user_id = user_id
    THEN [rt EXCEPT !.fase = 2]
    ELSE RtCero

(***************************************************************************)
(* Monitor of a delete: when it is switched on, it keeps the tables as     *)
(* they were just before the last delete call and whether that call closed *)
(* a shop; an observer, no part of the program's state.                    *)
(***************************************************************************)
PrevioApagado == [activo |-> FALSE]

PrevioEncendido == [activo |-> TRUE, cerro |-> FALSE]

PrevioTrasDelete(papeleria_id, user_id) ==
    IF ~previo.activo THEN previo
    ELSE [activo |-> TRUE,
          cerro |-> PapeleriaActivaDe(papeleria_id, user_id) # {},
          papelerias |-> papelerias,
          precios |-> precios,
          tramites |-> tramites]

(***************************************************************************)
(* PapeleriaRepository.add                                                 *)
(***************************************************************************)
\* A plausible slip: a soft-deleted shop of that name is not looked for.
AddRamaSinReactivar(nn, user_id) ==
    IF PapeleriasConNombre(nn, user_id, TRUE) # {} THEN "duplicada" ELSE "crear"

\* The three-way branch of add on the normalized name.
AddRama(nn, user_id) ==
    IF PapeleriasConNombre(nn, user_id, TRUE) # {} THEN "duplicada"
    ELSE IF PapeleriasConNombre(nn, user_id, FALSE) # {} THEN "reactivar"
    ELSE "crear"

Add(nombre, user_id) ==
    LET nn == Normalizar(nombre)
        rama == AddRama(nn, user_id)
    IN  /\ llamada' = [op |-> "add", nombre |-> nombre, user_id |-> user_id]
        /\ CASE rama = "duplicada" ->
                \* raise ValueError: nothing was written
                /\ papelerias' = papelerias
                /\ ret' = [status |-> "ValueError", id |-> 0, como |-> "duplicada"]
                /\ rt' = RtTrasAdd(nn, user_id, "duplicada", 0)
             [] rama = "reactivar" ->
                \* .first() of the soft-deleted rows of that name: the store
                \* fixes no order among them
                \E i \in PapeleriasConNombre(nn, user_id, FALSE) :
                    /\ papelerias' = [papelerias EXCEPT ![i].is_active = TRUE]
                    /\ ret' = [status |-> "ok", id |-> i, como |-> "reactivada"]
                    /\ rt' = RtTrasAdd(nn, user_id, "reactivada", i)
             [] OTHER ->
                /\ Len(papelerias) < MaxPapelerias
                /\ papelerias' = Append(papelerias,
                        [nombre |-> nn, user_id |-> user_id, is_active |-> TRUE])
                /\ ret' = [status |-> "ok", id |-> Len(papelerias) + 1,
                           como |-> "creada"]
                /\ rt' = RtTrasAdd(nn, user_id, "creada", Len(papelerias) + 1)
        /\ UNCHANGED <<precios, ultimo, tramites, nextTramite, gastos, tramiteCostos, proveedores, enCurso, previo, hoy>>

(***************************************************************************)
(* PapeleriaRepository.delete (soft delete)                                *)
(***************************************************************************)
\* A plausible slip: the tenant is not part of the lookup.
DeleteObjetivoSinTenant(papeleria_id, user_id) ==
    { i \in 1..Len(papelerias) : i = papeleria_id /\ papelerias[i].is_active }

DeleteObjetivo(papeleria_id, user_id) == PapeleriaActivaDe(papeleria_id, user_id)

\* A plausible slip: closing a shop also removes its price rows.
DeleteConCascada(papeleria_id, user_id) ==
    /\ llamada' = [op |-> "delete", papeleria_id |-> papeleria_id,
                   user_id |-> user_id]
    /\ papelerias' =
         [i \in 1..Len(papelerias) |->
            IF i \in DeleteObjetivo(papeleria_id, user_id)
            THEN [papelerias[i] EXCEPT !.is_active = FALSE]
            ELSE papelerias[i]]
    /\ precios' =
         IF DeleteObjetivo(papeleria_id, user_id) = {} THEN precios
         ELSE [r \in { f \in BagToSet(precios) : f.papeleria_id # papeleria_id }
                 |-> precios[r]]
    /\ ret' = [status |-> "ok", id |-> 0, como |-> "delete"]
    /\ rt' = RtTrasDelete(papeleria_id, user_id)
    /\ previo' = PrevioTrasDelete(papeleria_id, user_id)
    /\ UNCHANGED <<ultimo, tramites, nextTramite, gastos, tramiteCostos,
                   proveedores, enCurso, hoy>>

Delete(papeleria_id, user_id) ==
    /\ llamada' = [op |-> "delete", papeleria_id |-> papeleria_id,
                   user_id |-> user_id]
    /\ papelerias' =
         [i \in 1..Len(papelerias) |->
            IF i \in DeleteObjetivo(papeleria_id, user_id)
            THEN [papelerias[i] EXCEPT !.is_active = FALSE]
            ELSE papelerias[i]]
    /\ ret' = [status |-> "ok", id |-> 0, como |-> "delete"]
    /\ rt' = RtTrasDelete(papeleria_id, user_id)
    /\ previo' = PrevioTrasDelete(papeleria_id, user_id)
    /\ UNCHANGED <<precios, ultimo, tramites, nextTramite, gastos, tramiteCostos,
                   proveedores, enCurso, hoy>>

(***************************************************************************)
(* PapeleriaRepository.update_name: no check of the new name is made here. *)
(***************************************************************************)
UpdateName(papeleria_id, nuevo_nombre, user_id) ==
    /\ llamada' = [op |-> "update_name", papeleria_id |-> papeleria_id,
                   nombre |-> nuevo_nombre, user_id |-> user_id]
    /\ papelerias' =
         [i \in 1..Len(papelerias) |->
            IF i \in PapeleriaActivaDe(papeleria_id, user_id)
            THEN [papelerias[i] EXCEPT !.nombre = Normalizar(nuevo_nombre)]
            ELSE papelerias[i]]
    /\ ret' = [status |-> "ok", id |-> 0, como |-> "update_name"]
    /\ rt' = RtCero
    /\ UNCHANGED <<precios, ultimo, tramites, nextTramite, gastos, tramiteCostos, proveedores, enCurso, previo, hoy>>

\* exists_with_name(nombre, user_id, papeleria_id_to_exclude)
ExistsWithName(nombre, user_id, excluir) ==
    (PapeleriasConNombre(Normalizar(nombre), user_id, TRUE) \ {excluir}) # {}

(***************************************************************************)
(* Shops only: add, delete and update_name from an empty store.            *)
(***************************************************************************)
Fecha0 == [y |-> 2024, m |-> 3, d |-> 31]

InitPapelerias ==
    /\ papelerias = <<>>
    /\ precios = EmptyBag
    /\ ultimo = [k \in PapeleriaIds \X TiposTramite |-> Ninguno]
    /\ tramites = <<>>
    /\ nextTramite = 1
    /\ gastos = <<>>
    /\ tramiteCostos = <<>>
    /\ previo = PrevioApagado
    /\ enCurso = <<>>
    /\ proveedores = <<>>
    /\ hoy = Fecha0
    /\ llamada = [op |-> "init"]
    /\ ret = [status |-> "ok", id |-> 0, como |-> "init"]
    /\ rt = RtCero

NextPapelerias ==
    \/ \E n \in Nombres, u \in Users : Add(n, u)
    \/ \E i \in PapeleriaIds, u \in Users : Delete(i, u)
    \/ \E i \in PapeleriaIds, n \in Nombres, u \in Users : UpdateName(i, n, u)

SpecPapelerias == InitPapelerias /\ [][NextPapelerias]_vars

(***************************************************************************)
(* Price input of set_precios_bulk.  A value of precios_data is a string   *)
(* (a form field) or a number (the tests pass floats).                     *)
(***************************************************************************)
Str(s) == [tipo |-> "str", s |-> s]
Num(n) == [tipo |-> "num", n |-> n]

PrecioEntradas ==
    { Str(<<>>), Str(<<" ">>), Str(<<"1", "0">>), Str(<<"0">>),
      Str(<<"-", "5">>), Str(<<"a">>), Num(0), Num(5) }

\* precios_data: a dict, iterated in insertion order; its keys are distinct.
PreciosData ==
    {<<>>}
    \cup { << <<t, e>> >> : t \in TiposTramite, e \in PrecioEntradas }
    \cup { d \in { << <<t1, e1>>, <<t2, e2>> >> :
                       t1 \in TiposTramite, t2 \in TiposTramite,
                       e1 \in PrecioEntradas, e2 \in PrecioEntradas } :
             d[1][1] # d[2][1] }

Digitos == {"0", "1", "2", "3", "4", "5", "6", "7", "8", "9"}

DigitVal(c) ==
    CASE c = "0" -> 0 [] c = "1" -> 1 [] c = "2" -> 2 [] c = "3" -> 3
      [] c = "4" -> 4 [] c = "5" -> 5 [] c = "6" -> 6 [] c = "7" -> 7
      [] c = "8" -> 8 [] c = "9" -> 9

SoloDigitos(s) == s # <<>> /\ \A i \in 1..Len(s) : s[i] \in Digitos

RECURSIVE ValorDigitos(_)
ValorDigitos(s) ==
    IF s = <<>> THEN 0
    ELSE 10 * ValorDigitos(SubSeq(s, 1, Len(s) - 1)) + DigitVal(s[Len(s)])

\* float(str) on whole numbers: blanks around, an optional sign, digits.
\* (Fractions, exponents, "inf" and "nan" are not among the inputs.)
ParseFloat(s) ==
    LET t == Strip(s) IN
    IF SoloDigitos(t) THEN [ok |-> TRUE, v |-> ValorDigitos(t)]
    ELSE IF Len(t) >= 2 /\ t[1] = "-" /\ SoloDigitos(Tail(t))
         THEN [ok |-> TRUE, v |-> 0 - ValorDigitos(Tail(t))]
    ELSE IF Len(t) >= 2 /\ t[1] = "+" /\ SoloDigitos(Tail(t))
         THEN [ok |-> TRUE, v |-> ValorDigitos(Tail(t))]
    ELSE [ok |-> FALSE, v |-> 0]

\* float(precio_str)
Float(x) == IF x.tipo = "num" THEN [ok |-> TRUE, v |-> x.n] ELSE ParseFloat(x.s)

\* A plausible slip: only the empty string is skipped, blanks are not.
EsVacioSinStrip(x) == IF x.tipo = "num" THEN x.n = 0 ELSE x.s = <<>>

\* not precio_str or not str(precio_str).strip()
EsVacio(x) ==
    \/ IF x.tipo = "num" THEN x.n = 0 ELSE x.s = <<>>
    \/ x.tipo = "str" /\ Strip(x.s) = <<>>

\* The validation loop: errors and valid_precios, both in iteration order.
RECURSIVE ValidarPrecios(_, _, _)
ValidarPrecios(data, errors, validos) ==
    IF data = <<>> THEN [errors |-> errors, validos |-> validos]
    ELSE LET tramite == Head(data)[1]
             precio_str == Head(data)[2]
             f == Float(precio_str)
         IN  IF EsVacio(precio_str)
             THEN ValidarPrecios(Tail(data), errors, validos)
             ELSE IF ~f.ok
             THEN ValidarPrecios(Tail(data),
                    Append(errors, [tramite |-> tramite, error |-> "no_numero"]),
                    validos)
             ELSE IF f.v < 0
             THEN ValidarPrecios(Tail(data),
                    Append(errors, [tramite |-> tramite, error |-> "negativo"]),
                    validos)
             ELSE ValidarPrecios(Tail(data), errors,
                    Append(validos, <<tramite, f.v>>))

\* A plausible slip: validation stops at the first invalid entry.
ValidacionPrimerError(data) ==
    LET r == ValidarPrecios(data, <<>>, <<>>) IN
    [errors |-> IF r.errors = <<>> THEN <<>> ELSE <<r.errors[1]>>,
     validos |-> r.validos]

Validacion(data) == ValidarPrecios(data, <<>>, <<>>)

(***************************************************************************)
(* The upsert phase of set_precios_bulk.                                   *)
(***************************************************************************)
\* The rows of a shop for a type.
FilasPrecio(tabla, papeleria_id, tramite) ==
    { r \in BagToSet(tabla) :
        r.papeleria_id = papeleria_id /\ r.tramite = tramite }

\* The number of rows of a shop for a type.
NumFilasPrecio(tabla, papeleria_id, tramite) ==
    BagCardinality([r \in FilasPrecio(tabla, papeleria_id, tramite)
                      |-> CopiesIn(r, tabla)])

\* A plausible slip: the existing rows are never found, every price is added.
ExistentePrecioNunca(tabla, papeleria_id, tramite) == None

\* existing_precios_map.get(tramite): the row of the shop for that type in
\* the table as it was when the call began, None if there is none (the dict
\* keeps one row per type).
ExistentePrecio(tabla, papeleria_id, tramite) ==
    IF FilasPrecio(tabla, papeleria_id, tramite) = {} THEN None
    ELSE CHOOSE r \in FilasPrecio(tabla, papeleria_id, tramite) : TRUE

\* The loop over valid_precios: update the row found, else add a new one.
RECURSIVE AplicarPrecios(_, _, _, _)
AplicarPrecios(sesion, original, papeleria_id, validos) ==
    IF validos = <<>> THEN sesion
    ELSE LET tramite == Head(validos)[1]
             precio == Head(validos)[2]
             precio_obj == ExistentePrecio(original, papeleria_id, tramite)
         IN  AplicarPrecios(
                IF precio_obj # None
                THEN (sesion (-) SetToBag({precio_obj}))
                     (+) SetToBag({[precio_obj EXCEPT !.precio = precio]})
                ELSE sesion (+) SetToBag({[papeleria_id |-> papeleria_id,
                                           tramite |-> tramite,
                                           precio |-> precio]}),
                original, papeleria_id, Tail(validos))

\* A plausible slip: no rollback, so the pending changes reach the store
\* with the session's next commit.
RollbackSinEfecto(confirmada, sesion) == sesion

\* db.session.rollback(): the pending changes of the session are dropped.
Rollback(confirmada, sesion) == confirmada

\* Monitor: the price most recently accepted for each (shop, type).
UltimoTras(papeleria_id, validos) ==
    [k \in DOMAIN ultimo |->
        LET puestos == { i \in 1..Len(validos) :
                           k = <<papeleria_id, validos[i][1]>> }
        IN  IF puestos = {} THEN ultimo[k]
            ELSE Algun(validos[CHOOSE i \in puestos : TRUE][2])]

(***************************************************************************)
(* PapeleriaRepository.set_precios_bulk.  fallo = -1: the store works;     *)
(* fallo = k >= 0: the store fails in the upsert phase after k prices were *)
(* updated or added in the session (k = number of prices: at the commit).  *)
(***************************************************************************)
SetPreciosBulk(papeleria_id, precios_data, user_id, fallo) ==
    LET v == Validacion(precios_data) IN
    /\ fallo <= Len(v.validos)
    /\ llamada' = [op |-> "set_precios_bulk", papeleria_id |-> papeleria_id,
                   precios_data |-> precios_data, user_id |-> user_id,
                   fallo |-> fallo]
    /\ IF PapeleriaActivaDe(papeleria_id, user_id) = {}
       THEN /\ ret' = [valid_precios |-> NingunaLista, errors |-> <<[error |-> "no_existe"]>>]
            /\ UNCHANGED <<precios, ultimo>>
       ELSE IF v.errors # <<>>
       THEN /\ ret' = [valid_precios |-> NingunaLista, errors |-> v.errors]
            /\ UNCHANGED <<precios, ultimo>>
       ELSE IF fallo >= 0
       THEN /\ precios' = Rollback(precios,
                AplicarPrecios(precios, precios, papeleria_id,
                               SubSeq(v.validos, 1, fallo)))
            /\ ret' = [valid_precios |-> NingunaLista, errors |-> <<[error |-> "db"]>>]
            /\ UNCHANGED ultimo
       ELSE /\ precios' = AplicarPrecios(precios, precios, papeleria_id, v.validos)
            /\ ret' = [valid_precios |-> Algun(v.validos), errors |-> <<>>]
            /\ ultimo' = UltimoTras(papeleria_id, v.validos)
    /\ rt' = RtCero
    /\ UNCHANGED <<papelerias, tramites, nextTramite, gastos, tramiteCostos, proveedores, enCurso, previo, hoy>>

\* get_default_precio: the prices of the rows .first() may return (the shop
\* must be active and owned by user_id); None when the set is empty.
GetDefaultPrecios(papeleria_id, tramite, user_id) ==
    { r.precio : r \in { f \in FilasPrecio(precios, papeleria_id, tramite) :
                            PapeleriaActivaDe(papeleria_id, user_id) # {} } }

(***************************************************************************)
(* Prices: set_precios_bulk on a store that holds an active shop of each   *)
(* tenant and a soft-deleted one (add a,1; add a,2; add b,1; delete 3,1).  *)
(***************************************************************************)
PapeleriasConPrecios ==
    << [nombre |-> <<"A">>, user_id |-> 1, is_active |-> TRUE],
       [nombre |-> <<"A">>, user_id |-> 2, is_active |-> TRUE],
       [nombre |-> <<"B">>, user_id |-> 1, is_active |-> FALSE] >>

InitPrecios ==
    /\ papelerias = PapeleriasConPrecios
    /\ precios = EmptyBag
    /\ ultimo = [k \in PapeleriaIds \X TiposTramite |-> Ninguno]
    /\ tramites = <<>>
    /\ nextTramite = 1
    /\ gastos = <<>>
    /\ tramiteCostos = <<>>
    /\ previo = PrevioApagado
    /\ enCurso = <<>>
    /\ proveedores = <<>>
    /\ hoy = Fecha0
    /\ llamada = [op |-> "init"]
    /\ ret = [status |-> "ok", id |-> 0, como |-> "init"]
    /\ rt = RtCero

\* The evolving store is driven by short inputs: a price or another; the
\* store fails, if it does, after the first price.
PrecioEntradasBreves == { Str(<<"1", "0">>), Str(<<"0">>) }

PreciosDataBreves ==
    { d \in PreciosData :
        /\ \A i \in 1..Len(d) : d[i][2] \in PrecioEntradasBreves
        /\ Len(d) = 2 => d[1][1] = "ACTA" }

FallosBreves == {-1, 1}

NextPrecios ==
    \E i \in PapeleriaIds, d \in PreciosDataBreves, u \in Users, f \in FallosBreves :
        SetPreciosBulk(i, d, u, f)

SpecPrecios == InitPrecios /\ [][NextPrecios]_vars

(***************************************************************************)
(* One call of set_precios_bulk, with every input, on each price table     *)
(* that earlier calls can have left: at most one row per (shop, type) of   *)
(* the two active shops.                                                   *)
(***************************************************************************)
FilasPosibles ==
    { [papeleria_id |-> i, tramite |-> t, precio |-> p] :
        i \in {1, 2}, t \in TiposTramite, p \in {0, 10} }

TablasConPrecios ==
    { SetToBag(filas) : filas \in
        { fs \in SUBSET FilasPosibles :
            \A r1, r2 \in fs :
                (r1.papeleria_id = r2.papeleria_id /\ r1.tramite = r2.tramite)
                    => r1 = r2 } }

UltimoDe(tabla) ==
    [k \in PapeleriaIds \X TiposTramite |->
        IF FilasPrecio(tabla, k[1], k[2]) = {} THEN Ninguno
        ELSE Algun((CHOOSE r \in FilasPrecio(tabla, k[1], k[2]) : TRUE).precio)]

InitUnaLlamada ==
    /\ papelerias = PapeleriasConPrecios
    /\ precios \in TablasConPrecios
    /\ ultimo = UltimoDe(precios)
    /\ tramites = <<>>
    /\ nextTramite = 1
    /\ gastos = <<>>
    /\ tramiteCostos = <<>>
    /\ previo = PrevioApagado
    /\ enCurso = <<>>
    /\ proveedores = <<>>
    /\ hoy = Fecha0
    /\ llamada = [op |-> "init"]
    /\ ret = [status |-> "ok", id |-> 0, como |-> "init"]
    /\ rt = RtCero

FallosPosibles == -1..2

NextUnaLlamada ==
    /\ llamada.op = "init"
    /\ \E i \in PapeleriaIds, d \in PreciosData, u \in Users, f \in FallosPosibles :
          SetPreciosBulk(i, d, u, f)

SpecUnaLlamada == InitUnaLlamada /\ [][NextUnaLlamada]_vars

(***************************************************************************)
(* Calendar: datetime.date, dateutil.relativedelta and strftime.  A date   *)
(* is a record [y, m, d]; Tramite.fecha and Gasto.fecha hold the date that *)
(* strptime parsed (midnight, the time of day is never read here).         *)
(***************************************************************************)
EsBisiesto(y) == (y % 4 = 0 /\ y % 100 # 0) \/ y % 400 = 0

DiasDelMes(y, m) ==
    IF m = 2 THEN (IF EsBisiesto(y) THEN 29 ELSE 28)
    ELSE IF m \in {4, 6, 9, 11} THEN 30 ELSE 31

\* a <= b on dates
FechaLE(a, b) ==
    \/ a.y < b.y
    \/ a.y = b.y /\ a.m < b.m
    \/ a.y = b.y /\ a.m = b.m /\ a.d <= b.d

\* strftime('%Y-%m', fecha)
MesDe(f) == <<f.y, f.m>>

\* fecha.replace(day=1)
InicioDeMes(f) == [f EXCEPT !.d = 1]

\* fecha + relativedelta(months=n), n of either sign: the day is clipped
\* to the length of the month reached.
MasMeses(f, n) ==
    LET k == f.y * 12 + (f.m - 1) + n
        y == k \div 12
        m == (k % 12) + 1
    IN  [y |-> y, m |-> m,
         d |-> IF f.d > DiasDelMes(y, m) THEN DiasDelMes(y, m) ELSE f.d]

\* fecha + relativedelta(days=1)
MasUnDia(f) ==
    IF f.d < DiasDelMes(f.y, f.m) THEN [f EXCEPT !.d = f.d + 1]
    ELSE IF f.m < 12 THEN [y |-> f.y, m |-> f.m + 1, d |-> 1]
    ELSE [y |-> f.y + 1, m |-> 1, d |-> 1]

\* fecha - relativedelta(days=1)
MenosUnDia(f) ==
    IF f.d > 1 THEN [f EXCEPT !.d = f.d - 1]
    ELSE IF f.m > 1 THEN [y |-> f.y, m |-> f.m - 1, d |-> DiasDelMes(f.y, f.m - 1)]
    ELSE [y |-> f.y - 1, m |-> 12, d |-> 31]

RECURSIVE MasDias(_, _)
MasDias(f, n) == IF n = 0 THEN f ELSE MasDias(MasUnDia(f), n - 1)

RECURSIVE DiasAntesDelMes(_, _)
DiasAntesDelMes(y, m) ==
    IF m = 1 THEN 0 ELSE DiasAntesDelMes(y, m - 1) + DiasDelMes(y, m - 1)

\* date.toordinal(): 0001-01-01 is day 1
Ordinal(f) ==
    LET a == f.y - 1
    IN  365 * a + (a \div 4) - (a \div 100) + (a \div 400)
        + DiasAntesDelMes(f.y, f.m) + f.d

\* A plausible slip: the weekday is taken with Sunday as day 0.
WeekdayDomingoCero(f) == Ordinal(f) % 7

\* date.weekday(): 0 = Monday ... 6 = Sunday
Weekday(f) == (Ordinal(f) + 6) % 7

\* strftime('%w', fecha) of SQLite: 0 = Sunday ... 6 = Saturday
DiaSemana(f) == Ordinal(f) % 7

\* datetime.strptime(fecha, "%Y-%m-%d") on zero-padded text; ok = FALSE
\* stands for the ValueError it raises.
Strptime(s) ==
    IF /\ Len(s) = 10
       /\ s[5] = "-"
       /\ s[8] = "-"
       /\ SoloDigitos(SubSeq(s, 1, 4))
       /\ SoloDigitos(SubSeq(s, 6, 7))
       /\ SoloDigitos(SubSeq(s, 9, 10))
    THEN LET y == ValorDigitos(SubSeq(s, 1, 4))
             m == ValorDigitos(SubSeq(s, 6, 7))
             d == ValorDigitos(SubSeq(s, 9, 10))
         IN  IF y >= 1 /\ m \in 1..12 /\ d >= 1 /\ d <= DiasDelMes(y, m)
             THEN [ok |-> TRUE, v |-> [y |-> y, m |-> m, d |-> d]]
             ELSE [ok |-> FALSE, v |-> Fecha0]
    ELSE [ok |-> FALSE, v |-> Fecha0]

\* No date given (fecha_inicio=None): an optional date text.
SinFecha == [es_none |-> TRUE, v |-> <<"-">>]

(***************************************************************************)
(* Arithmetic of the reports.  round(x, n) is kept as a whole number of    *)
(* 10^-n units; a tie goes to the even neighbour (the code rounds binary   *)
(* floats, which agrees with this on the amounts used here).               *)
(***************************************************************************)
\* round(num / den) for den # 0
Redondear(num, den) ==
    LET n == IF den < 0 THEN 0 - num ELSE num
        d == IF den < 0 THEN 0 - den ELSE den
        q == n \div d
        r == n % d
    IN  IF 2 * r < d THEN q
        ELSE IF 2 * r > d THEN q + 1
        ELSE IF q % 2 = 0 THEN q ELSE q + 1

RECURSIVE SumaCampo(_, _)
\* func.sum(column) over rows, 0 for no row (the code coalesces None to 0)
SumaCampo(rows, campo) ==
    IF rows = <<>> THEN 0 ELSE rows[1][campo] + SumaCampo(Tail(rows), campo)

Rango(s) == { s[i] : i \in 1..Len(s) }

\* The element of a one-element set: Unico({ F(x) : x \in {e} }) is F(e)
\* with e computed once.
Unico(S) == CHOOSE x \in S : TRUE

\* The orders in which ORDER BY may return the rows S: antes holds the pairs
\* <<a, b>> where a may come before b.  Rows that tie come in an order the
\* store chooses.
OrdenadasPor(S, antes) ==
    { s \in [1..Cardinality(S) -> S] :
        /\ \A i, j \in 1..Cardinality(S) : i # j => s[i] # s[j]
        /\ \A i \in 1..(Cardinality(S) - 1) : <<s[i], s[i + 1]>> \in antes }

\* order_by(db.desc(campo))
Descendente(S, campo) == { par \in S \X S : par[1][campo] >= par[2][campo] }

\* .limit(n)
Limit(s, n) == SubSeq(s, 1, IF Len(s) < n THEN Len(s) ELSE n)

\* Binary collation of the characters used in shop names.
CodigoChar(c) ==
    CASE c = " " -> 32
      [] c = "A" -> 65
      [] c = "B" -> 66
      [] c = "a" -> 97
      [] c = "b" -> 98

RECURSIVE NombreLE(_, _)
\* s <= t in ORDER BY Papeleria.nombre
NombreLE(s, t) ==
    IF s = <<>> THEN TRUE
    ELSE IF t = <<>> THEN FALSE
    ELSE IF CodigoChar(s[1]) # CodigoChar(t[1])
         THEN CodigoChar(s[1]) < CodigoChar(t[1])
         ELSE NombreLE(Tail(s), Tail(t))

(***************************************************************************)
(* TramiteRepository.add_bulk and GastoRepository.add.                     *)
(***************************************************************************)
\* A plausible slip: one row is added whatever cantidad is.
FilasAddBulkUna(fila, primero, cantidad) ==
    [k \in 1..1 |-> [fila EXCEPT !.id = primero]]

\* The rows add_bulk puts in the session: cantidad copies, ids in sequence.
FilasAddBulk(fila, primero, cantidad) ==
    [k \in 1..cantidad |-> [fila EXCEPT !.id = primero + k - 1]]

\* No ownership or existence check is made on papeleria_id.
AddBulk(papeleria_id, tramite, user_id, fecha, precio, costo, cantidad) ==
    LET fecha_dt == Strptime(fecha)
        p == Float(precio)
        c == Float(costo)
        fila == [id |-> 0, papeleria_id |-> papeleria_id, tramite |-> tramite,
                 user_id |-> user_id, fecha |-> fecha_dt.v,
                 precio |-> p.v, costo |-> c.v]
    IN  /\ Len(tramites) + cantidad <= MaxTramites
        /\ llamada' = [op |-> "add_bulk", user_id |-> user_id]
        /\ IF fecha_dt.ok /\ (cantidad > 0 => (p.ok /\ c.ok))
           THEN /\ tramites' = tramites \o FilasAddBulk(fila, nextTramite, cantidad)
                /\ nextTramite' = nextTramite + cantidad
                /\ ret' = [status |-> "ok", id |-> 0, como |-> "add_bulk"]
           ELSE \* strptime or float raised before the commit
                /\ UNCHANGED <<tramites, nextTramite>>
                /\ ret' = [status |-> "ValueError", id |-> 0, como |-> "add_bulk"]
        /\ rt' = RtCero
        /\ UNCHANGED <<papelerias, precios, ultimo, gastos, tramiteCostos, proveedores, enCurso, previo, hoy>>

AddGasto(proveedor_id, descripcion, monto, fecha, categoria, user_id) ==
    LET fecha_dt == Strptime(fecha)
        m == Float(monto)
    IN  /\ Len(gastos) < MaxGastos
        /\ llamada' = [op |-> "add_gasto", user_id |-> user_id]
        /\ IF fecha_dt.ok /\ m.ok
           THEN /\ gastos' = Append(gastos,
                      [id |-> Len(gastos) + 1, proveedor_id |-> proveedor_id,
                       descripcion |-> descripcion, monto |-> m.v,
                       fecha |-> fecha_dt.v, categoria |-> categoria,
                       user_id |-> user_id])
                /\ ret' = [status |-> "ok", id |-> 0, como |-> "add_gasto"]
           ELSE /\ UNCHANGED gastos
                /\ ret' = [status |-> "ValueError", id |-> 0, como |-> "add_gasto"]
        /\ rt' = RtCero
        /\ UNCHANGED <<papelerias, precios, ultimo, tramites, nextTramite, tramiteCostos, proveedores, enCurso, previo, hoy>>

(***************************************************************************)
(* Joins of the reports.  T is the Tramite table and G the Gasto table the *)
(* query runs on (the state's tables in the program).                      *)
(***************************************************************************)
\* Papeleria rows with user_id == user_id and is_active == True
PapeleriasActivasDe(user_id) ==
    { i \in 1..Len(papelerias) :
        papelerias[i].user_id = user_id /\ papelerias[i].is_active }

\* A plausible slip: the join leaves out Papeleria.is_active == True.
TramitesDeActivasSinFiltro(T, user_id) ==
    SelectSeq(T, LAMBDA t :
        /\ t.user_id = user_id
        /\ t.papeleria_id \in 1..Len(papelerias))

\* Tramite JOIN Papeleria ON Tramite.papeleria_id == Papeleria.id
\*   WHERE Tramite.user_id == user_id AND Papeleria.is_active == True
TramitesDeActivas(T, user_id) ==
    SelectSeq(T, LAMBDA t :
        /\ t.user_id = user_id
        /\ t.papeleria_id \in 1..Len(papelerias)
        /\ papelerias[t.papeleria_id].is_active)

\* The Tramite rows joined to one Papeleria row: the join of
\* get_top_by_ganancia and get_roi_por_papeleria has no Tramite.user_id.
TramitesDePapeleria(T, papeleria_id) ==
    SelectSeq(T, LAMBDA t : t.papeleria_id = papeleria_id)

\* A plausible slip: the profit is taken to be the income.
GananciaSinCosto(rows) == SumaCampo(rows, "precio")

\* func.sum(Tramite.precio - Tramite.costo)
Ganancia(rows) == SumaCampo(rows, "precio") - SumaCampo(rows, "costo")

(***************************************************************************)
(* PapeleriaRepository reports.  A report whose ORDER BY leaves ties is    *)
(* the set of the lists the store may return.                              *)
(***************************************************************************)
TopLimit == 10

\* get_top_by_ganancia(user_id, limit) without a date range
GetTopByGanancia(T, user_id, limit) ==
    LET filas ==
          { [id |-> p, nombre |-> papelerias[p].nombre,
             ganancia_total |-> Ganancia(TramitesDePapeleria(T, p))] :
            p \in PapeleriasActivasDe(user_id) }
    IN  { Limit([i \in 1..Len(s) |->
                   [nombre |-> s[i].nombre,
                    ganancia_total |-> s[i].ganancia_total]], limit) :
          s \in OrdenadasPor(filas, Descendente(filas, "ganancia_total")) }

\* get_papelerias_and_totals_for_user(user_id) without a search term
GetPapeleriasAndTotalsForUser(T, user_id) ==
    LET Stats(p) == SelectSeq(T, LAMBDA t :
                        t.user_id = user_id /\ t.papeleria_id = p)
        filas ==
          { [id |-> p, nombre |-> papelerias[p].nombre,
             cuantos |-> Len(Stats(p)),
             total_ingresos |-> SumaCampo(Stats(p), "precio"),
             total_costos |-> SumaCampo(Stats(p), "costo"),
             ganancia_total |-> Ganancia(Stats(p))] :
            p \in PapeleriasActivasDe(user_id) }
    IN  { [papelerias |-> s,
           totales |->
             [cuantos |-> SumaCampo(s, "cuantos"),
              total_ingresos |-> SumaCampo(s, "total_ingresos"),
              total_costos |-> SumaCampo(s, "total_costos"),
              ganancia |-> SumaCampo(s, "total_ingresos")
                           - SumaCampo(s, "total_costos")]] :
          s \in OrdenadasPor(filas, { par \in filas \X filas :
                                      NombreLE(par[1].nombre, par[2].nombre) }) }

\* A plausible slip: a previous value of 0 always gives 0.
CalcularPorcentajeSinCien(actual, anterior) ==
    IF anterior = 0 THEN 0
    ELSE Redondear((actual - anterior) * 1000, anterior)

\* calcular_porcentaje, in tenths of a percent
CalcularPorcentaje(actual, anterior) ==
    IF anterior = 0 THEN (IF actual > 0 THEN 1000 ELSE 0)
    ELSE Redondear((actual - anterior) * 1000, anterior)

\* get_totales_comparativa(user_id)
GetTotalesComparativa(T, user_id) ==
    LET inicio_mes_actual == InicioDeMes(hoy)
        inicio_mes_anterior == MasMeses(inicio_mes_actual, -1)
        fin_mes_anterior == MenosUnDia(inicio_mes_actual)
        datos_actual == SelectSeq(TramitesDeActivas(T, user_id), LAMBDA t :
                            FechaLE(inicio_mes_actual, t.fecha))
        datos_anterior == SelectSeq(TramitesDeActivas(T, user_id), LAMBDA t :
                            /\ FechaLE(inicio_mes_anterior, t.fecha)
                            /\ FechaLE(t.fecha, fin_mes_anterior))
        ingresos_actual == SumaCampo(datos_actual, "precio")
        costos_actual == SumaCampo(datos_actual, "costo")
        ganancia_actual == ingresos_actual - costos_actual
        ingresos_anterior == SumaCampo(datos_anterior, "precio")
        costos_anterior == SumaCampo(datos_anterior, "costo")
        ganancia_anterior == ingresos_anterior - costos_anterior
    IN  [ganancia_actual |-> ganancia_actual,
         ganancia_anterior |-> ganancia_anterior,
         cambio_ganancia |-> ganancia_actual - ganancia_anterior,
         porcentaje_ganancia |->
             CalcularPorcentaje(ganancia_actual, ganancia_anterior),
         ingresos_porcentaje |->
             CalcularPorcentaje(ingresos_actual, ingresos_anterior),
         costos_porcentaje |->
             CalcularPorcentaje(costos_actual, costos_anterior)]

(***************************************************************************)
(* TramiteRepository reports.                                              *)
(***************************************************************************)
\* get_total_general(user_id) without a date range: no join with Papeleria
GetTotalGeneral(T, user_id) ==
    LET rows == SelectSeq(T, LAMBDA t : t.user_id = user_id)
    IN  [cuantos |-> Len(rows),
         total_ingresos |-> SumaCampo(rows, "precio"),
         total_costos |-> SumaCampo(rows, "costo"),
         ganancia |-> Ganancia(rows)]

RECURSIVE MesesDesdeSinFinal(_, _, _)
\* A plausible slip: the loop stops one month early (while the month after
\* current_date is still within the range).
MesesDesdeSinFinal(start_date, i, end_date) ==
    IF FechaLE(MasMeses(start_date, i + 1), end_date)
    THEN <<MesDe(MasMeses(start_date, i))>>
         \o MesesDesdeSinFinal(start_date, i + 1, end_date)
    ELSE <<>>

RECURSIVE MesesDesde(_, _, _)
\* the while loop of get_monthly_summary: one '%Y-%m' per month; in its
\* i-th round current_date is start_date plus i months
MesesDesde(start_date, i, end_date) ==
    IF FechaLE(MasMeses(start_date, i), end_date)
    THEN <<MesDe(MasMeses(start_date, i))>> \o MesesDesde(start_date, i + 1, end_date)
    ELSE <<>>

\* A plausible slip: the Gasto rows are left out of the month's gastos.
ResumenMensualSinGastos(months, tramites_query, gastos_query) ==
    LET DelMes(rows, mes) == SelectSeq(rows, LAMBDA r : MesDe(r.fecha) = mes)
        FilaDe(mes) ==
            LET ingresos == SumaCampo(DelMes(tramites_query, mes), "precio")
                gastos_mes == SumaCampo(DelMes(tramites_query, mes), "costo")
            IN  [month |-> mes, ingresos |-> ingresos,
                 gastos |-> gastos_mes, ganancias |-> ingresos - gastos_mes]
        final_data == [i \in 1..Len(months) |-> FilaDe(months[i])]
    IN  [monthly_data |-> final_data,
         totals |->
           [total_ingresos |-> SumaCampo(final_data, "ingresos"),
            total_gastos |-> SumaCampo(final_data, "gastos"),
            total_ganancia |-> SumaCampo(final_data, "ingresos")
                               - SumaCampo(final_data, "gastos")]]

\* Steps 4 and 5 of get_monthly_summary: the rows of each month of months
\* are merged, then the columns are totalled.
ResumenMensual(months, tramites_query, gastos_query) ==
    LET DelMes(rows, mes) == SelectSeq(rows, LAMBDA r : MesDe(r.fecha) = mes)
        FilaDe(mes) ==
            LET ingresos == SumaCampo(DelMes(tramites_query, mes), "precio")
                gastos_mes == SumaCampo(DelMes(tramites_query, mes), "costo")
                              + SumaCampo(DelMes(gastos_query, mes), "monto")
            IN  [month |-> mes, ingresos |-> ingresos,
                 gastos |-> gastos_mes, ganancias |-> ingresos - gastos_mes]
        Totales(final_data) ==
            [monthly_data |-> final_data,
             totals |->
               [total_ingresos |-> SumaCampo(final_data, "ingresos"),
                total_gastos |-> SumaCampo(final_data, "gastos"),
                total_ganancia |-> SumaCampo(final_data, "ingresos")
                                   - SumaCampo(final_data, "gastos")]]
    IN  Unico({ Totales(fd) : fd \in { [i \in 1..Len(months) |-> FilaDe(months[i])] } })

\* get_monthly_summary(user_id, fecha_inicio, fecha_fin); the range is two
\* optional date texts that strptime accepts.
GetMonthlySummary(T, G, user_id, fecha_inicio, fecha_fin) ==
    LET conRango == /\ ~fecha_inicio.es_none /\ fecha_inicio.v # <<>>
                    /\ ~fecha_fin.es_none /\ fecha_fin.v # <<>>
        end_date == IF conRango THEN Strptime(fecha_fin.v).v ELSE hoy
        start_date ==
            IF conRango THEN InicioDeMes(Strptime(fecha_inicio.v).v)
            ELSE InicioDeMes(MasMeses(end_date, -11))
        Tramites_query(desde, hasta) ==
            SelectSeq(TramitesDeActivas(T, user_id), LAMBDA t :
                FechaLE(desde, t.fecha) /\ FechaLE(t.fecha, hasta))
        Gastos_query(desde, hasta) ==
            SelectSeq(G, LAMBDA g :
                /\ g.user_id = user_id
                /\ FechaLE(desde, g.fecha)
                /\ FechaLE(g.fecha, hasta))
    IN  Unico({ ResumenMensual(ms, tq, gq) :
                ms \in { MesesDesde(start_date, 0, end_date) },
                tq \in { Tramites_query(start_date, end_date) },
                gq \in { Gastos_query(start_date, end_date) } })

\* get_tramites_distribution(user_id, limit) without a date range
GetTramitesDistribution(T, user_id, limit) ==
    LET rows == TramitesDeActivas(T, user_id)
        filas ==
          { [tramite_label |-> tipo,
             total_count |-> Len(SelectSeq(rows, LAMBDA t : t.tramite = tipo))] :
            tipo \in { r.tramite : r \in Rango(rows) } }
    IN  { Limit(s, limit) :
          s \in OrdenadasPor(filas, Descendente(filas, "total_count")) }

(***************************************************************************)
(* AnalyticsRepository.  Percentages are in tenths, amounts rounded to two *)
(* decimals are in hundredths.                                             *)
(***************************************************************************)
MetaObjetivo == 10000

RoiLimit == 5

\* get_meta_mensual_progress(user_id, meta_objetivo)
GetMetaMensualProgress(T, user_id, meta_objetivo) ==
    LET inicio_mes == InicioDeMes(hoy)
        ganancia_actual ==
            Ganancia(SelectSeq(TramitesDeActivas(T, user_id), LAMBDA t :
                        FechaLE(inicio_mes, t.fecha)))
        dia_actual == Weekday(hoy)
        dias_hasta_domingo == IF dia_actual = 6 THEN 0 ELSE 6 - dia_actual
        dias_transcurridos == Ordinal(hoy) - Ordinal(inicio_mes) + 1
        dias_en_mes == MenosUnDia(InicioDeMes(MasDias([hoy EXCEPT !.d = 28], 4)))
        dias_totales == dias_en_mes.d
    IN  [ganancia_actual |-> ganancia_actual,
         meta_objetivo |-> meta_objetivo,
         porcentaje |-> IF meta_objetivo > 0
                        THEN Redondear(ganancia_actual * 1000, meta_objetivo)
                        ELSE 0,
         proyeccion |-> IF dias_transcurridos > 0
                        THEN Redondear(ganancia_actual * dias_totales * 100,
                                       dias_transcurridos)
                        ELSE 0,
         dias_restantes |-> dias_hasta_domingo,
         falta |-> IF meta_objetivo - ganancia_actual > 0
                   THEN meta_objetivo - ganancia_actual ELSE 0]

\* get_mejor_mes_historico(user_id): .first() of the months by profit
GetMejorMesHistorico(T, user_id) ==
    LET rows == TramitesDeActivas(T, user_id)
        filas ==
          { [mes |-> mes,
             ganancia |-> Ganancia(SelectSeq(rows, LAMBDA t : MesDe(t.fecha) = mes))] :
            mes \in { MesDe(r.fecha) : r \in Rango(rows) } }
    IN  IF filas = {} THEN { [es_none |-> TRUE, mes |-> <<0, 0>>, ganancia |-> 0] }
        ELSE { [es_none |-> FALSE, mes |-> s[1].mes, ganancia |-> s[1].ganancia] :
               s \in OrdenadasPor(filas, Descendente(filas, "ganancia")) }

DiasNombres ==
    <<"Domingo", "Lunes", "Martes", "Miercoles", "Jueves", "Viernes", "Sabado">>

\* get_dias_mas_productivos(user_id)
GetDiasMasProductivos(T, user_id) ==
    LET rows == TramitesDeActivas(T, user_id)
        DelDia(dia) == SelectSeq(rows, LAMBDA t : DiaSemana(t.fecha) = dia)
        filas ==
          { [dia_semana |-> dia,
             ganancia_total |-> Ganancia(DelDia(dia)),
             cantidad_tramites |-> Len(DelDia(dia))] :
            dia \in { DiaSemana(r.fecha) : r \in Rango(rows) } }
    IN  IF filas = {}
        THEN { [es_none |-> TRUE, dia_nombre |-> "", ganancia |-> 0, tramites |-> 0] }
        ELSE { [es_none |-> FALSE,
                dia_nombre |-> DiasNombres[s[1].dia_semana + 1],
                ganancia |-> s[1].ganancia_total,
                tramites |-> s[1].cantidad_tramites] :
               s \in OrdenadasPor(filas, Descendente(filas, "ganancia_total")) }

\* get_margen_promedio(user_id)
GetMargenPromedio(T, user_id) ==
    LET rows == TramitesDeActivas(T, user_id)
        ingresos == SumaCampo(rows, "precio")
        costos == SumaCampo(rows, "costo")
    IN  IF rows # <<>> /\ ingresos # 0
        THEN (IF ingresos > 0
              THEN Redondear((ingresos - costos) * 1000, ingresos) ELSE 0)
        ELSE 0

\* A plausible slip: the query has no limit(5).
GetRoiPorPapeleriaSinLimit(T, user_id) ==
    LET filas ==
          { f \in { [id |-> p, nombre |-> papelerias[p].nombre,
                     ingresos |-> SumaCampo(TramitesDePapeleria(T, p), "precio"),
                     costos |-> SumaCampo(TramitesDePapeleria(T, p), "costo")] :
                    p \in { q \in PapeleriasActivasDe(user_id) :
                              TramitesDePapeleria(T, q) # <<>> } } :
              f.costos > 0 }
    IN  { [i \in 1..Len(s) |->
             [nombre |-> s[i].nombre,
              roi |-> Redondear((s[i].ingresos - s[i].costos) * 1000,
                                s[i].costos)]] :
          s \in OrdenadasPor(filas, { par \in filas \X filas :
                   (par[1].ingresos - par[1].costos) * par[2].costos
                       >= (par[2].ingresos - par[2].costos) * par[1].costos }) }

\* get_roi_por_papeleria(user_id): like get_top_by_ganancia, the join has
\* no Tramite.user_id
GetRoiPorPapeleria(T, user_id) ==
    LET filas ==
          { f \in { [id |-> p, nombre |-> papelerias[p].nombre,
                     ingresos |-> SumaCampo(TramitesDePapeleria(T, p), "precio"),
                     costos |-> SumaCampo(TramitesDePapeleria(T, p), "costo")] :
                    p \in { q \in PapeleriasActivasDe(user_id) :
                              TramitesDePapeleria(T, q) # <<>> } } :
              f.costos > 0 }
    IN  { Limit([i \in 1..Len(s) |->
                   [nombre |-> s[i].nombre,
                    roi |-> Redondear((s[i].ingresos - s[i].costos) * 1000,
                                      s[i].costos)]], RoiLimit) :
          s \in OrdenadasPor(filas, { par \in filas \X filas :
                   (par[1].ingresos - par[1].costos) * par[2].costos
                       >= (par[2].ingresos - par[2].costos) * par[1].costos }) }

\* get_rentabilidad_por_tramite(user_id)
GetRentabilidadPorTramite(T, user_id) ==
    LET rows == TramitesDeActivas(T, user_id)
        DelTipo(tipo) == SelectSeq(rows, LAMBDA t : t.tramite = tipo)
        filas ==
          { [tramite |-> tipo,
             cantidad |-> Len(DelTipo(tipo)),
             margen_promedio |-> Redondear(Ganancia(DelTipo(tipo)) * 100,
                                           Len(DelTipo(tipo))),
             ganancia_total |-> Ganancia(DelTipo(tipo)) * 100] :
            tipo \in { r.tramite : r \in Rango(rows) } }
    IN  OrdenadasPor(filas, Descendente(filas, "ganancia_total"))

(***************************************************************************)
(* Shops and transactions from an empty store: each tenant opens, closes   *)
(* and reopens a shop "A" and sells on any shop id.                        *)
(***************************************************************************)
NombresBreves == { <<"A">> }

Fecha1 == <<"2", "0", "2", "4", "-", "0", "3", "-", "1", "5">>
Fecha2 == <<"2", "0", "2", "4", "-", "0", "2", "-", "2", "9">>
FechaMala == <<"2", "0", "2", "4", "-", "0", "2", "-", "3", "0">>

\* What is sold: type, date, price and cost of an add_bulk call.
Ventas ==
    { [tramite |-> "ACTA", fecha |-> Fecha1, precio |-> Num(50), costo |-> Num(20)],
      [tramite |-> "CURP", fecha |-> Fecha2, precio |-> Num(50), costo |-> Num(0)],
      [tramite |-> "ACTA", fecha |-> FechaMala, precio |-> Num(50), costo |-> Num(20)] }

Cantidades == 1..MaxTramites

\* The shop ids given to delete and add_bulk: those of the shops that can
\* exist here; such an id names no shop before the shop is added.
IdsDeVenta == 1..(Cardinality(Users) * Cardinality(NombresBreves))

InitTramites ==
    /\ papelerias = <<>>
    /\ precios = EmptyBag
    /\ ultimo = [k \in PapeleriaIds \X TiposTramite |-> Ninguno]
    /\ tramites = <<>>
    /\ nextTramite = 1
    /\ gastos = <<>>
    /\ tramiteCostos = <<>>
    /\ previo = PrevioApagado
    /\ enCurso = <<>>
    /\ proveedores = <<>>
    /\ hoy = Fecha0
    /\ llamada = [op |-> "init"]
    /\ ret = [status |-> "ok", id |-> 0, como |-> "init"]
    /\ rt = RtCero

NextTramites ==
    \/ \E n \in NombresBreves, u \in Users : Add(n, u)
    \/ \E i \in IdsDeVenta, u \in Users : Delete(i, u)
    \/ \E i \in IdsDeVenta, v \in Ventas, u \in Users, q \in Cantidades :
          AddBulk(i, v.tramite, u, v.fecha, v.precio, v.costo, q)

SpecTramites == InitTramites /\ [][NextTramites]_vars

(***************************************************************************)
(* Reports on stores that hold data.  The stores are those add, delete,    *)
(* add_bulk and GastoRepository.add build: an active shop of each tenant,  *)
(* a soft-deleted shop, and Tramite and Gasto rows with the values those   *)
(* calls store.  A read leaves the store alone; the call and what it       *)
(* returns are kept in llamada and ret.                                    *)
(***************************************************************************)
Fecha(y, m, d) == [y |-> y, m |-> m, d |-> d]

\* The Tramite row add_bulk stores for these arguments (its id is given
\* when the row is put in a table).
FilaTramite(papeleria_id, tramite, user_id, fecha, precio, costo) ==
    [id |-> 0, papeleria_id |-> papeleria_id, tramite |-> tramite,
     user_id |-> user_id, fecha |-> Strptime(fecha).v,
     precio |-> Float(precio).v, costo |-> Float(costo).v]

\* The Gasto row GastoRepository.add stores for these arguments.
FilaGasto(proveedor_id, descripcion, monto, fecha, categoria, user_id) ==
    [id |-> 0, proveedor_id |-> proveedor_id, descripcion |-> descripcion,
     monto |-> Float(monto).v, fecha |-> Strptime(fecha).v,
     categoria |-> categoria, user_id |-> user_id]

\* The tables of at most n rows drawn from filas, ids in insertion order.
TablasDe(filas, n) ==
    UNION { { [i \in 1..k |-> [f[i] EXCEPT !.id = i]] : f \in [1..k -> filas] } :
            k \in 0..n }

\* A read: the store is as it was.
Lectura(op, user_id, fecha_inicio, fecha_fin, valor) ==
    /\ llamada' = [op |-> op, user_id |-> user_id,
                   fecha_inicio |-> fecha_inicio, fecha_fin |-> fecha_fin]
    /\ ret' = [status |-> "ok", id |-> 0, como |-> op, valor |-> valor]
    /\ UNCHANGED <<papelerias, precios, ultimo, tramites, nextTramite,
                   gastos, tramiteCostos, proveedores, enCurso, previo, hoy, rt>>

InitLectura(tablas, tablasGasto, dias) ==
    /\ papelerias = PapeleriasConPrecios
    /\ precios = EmptyBag
    /\ ultimo = [k \in PapeleriaIds \X TiposTramite |-> Ninguno]
    /\ tramites \in tablas
    /\ nextTramite = Len(tramites) + 1
    /\ gastos \in tablasGasto
    /\ tramiteCostos = <<>>
    /\ previo = PrevioApagado
    /\ enCurso = <<>>
    /\ proveedores = <<>>
    /\ hoy \in dias
    /\ llamada = [op |-> "init"]
    /\ ret = [status |-> "ok", id |-> 0, como |-> "init"]
    /\ rt = RtCero

(***************************************************************************)
(* get_monthly_summary on stores with rows inside and outside the last     *)
(* twelve months, before and after today, of both tenants and of a         *)
(* soft-deleted shop.                                                      *)
(***************************************************************************)
Fecha3 == <<"2", "0", "2", "4", "-", "0", "3", "-", "2", "0">>
Fecha4 == <<"2", "0", "2", "3", "-", "0", "3", "-", "3", "1">>
Fecha5 == <<"2", "0", "2", "3", "-", "1", "1", "-", "1", "5">>

DiasHoy == { Fecha0, Fecha(2024, 3, 15) }

FilasResumen ==
    { FilaTramite(1, "ACTA", 1, Fecha1, Num(50), Num(20)),
      FilaTramite(1, "CURP", 1, Fecha2, Num(30), Num(0)),
      FilaTramite(1, "ACTA", 1, Fecha3, Num(50), Num(20)),
      FilaTramite(1, "ACTA", 1, Fecha4, Num(50), Num(20)),
      FilaTramite(3, "ACTA", 1, Fecha1, Num(50), Num(20)),
      FilaTramite(2, "ACTA", 2, Fecha1, Num(50), Num(20)) }

GastosResumen ==
    { FilaGasto(1, <<"x">>, Num(7), Fecha1, "Papel", 1),
      FilaGasto(1, <<"x">>, Num(7), Fecha3, "Papel", 1),
      FilaGasto(1, <<"x">>, Num(7), Fecha1, "Papel", 2) }

\* The ranges asked for: none, both bounds, one bound only, and a range
\* that ends before it starts.
RangosResumen ==
    { <<SinFecha, SinFecha>>,
      <<Algun(Fecha2), Algun(Fecha1)>>,
      <<Algun(Fecha5), Algun(Fecha2)>>,
      <<Algun(Fecha1), SinFecha>>,
      <<Algun(Fecha1), Algun(Fecha2)>> }

InitResumen ==
    InitLectura(TablasDe(FilasResumen, MaxTramites),
                TablasDe(GastosResumen, MaxGastos), DiasHoy)

NextResumen ==
    \E u \in Users, r \in RangosResumen :
        Lectura("get_monthly_summary", u, r[1], r[2],
                GetMonthlySummary(tramites, gastos, u, r[1], r[2]))

SpecResumen == InitResumen /\ [][NextResumen]_vars

(***************************************************************************)
(* Reads with a date range.  The range is two optional texts (request      *)
(* arguments); the filter is applied only when both are given.             *)
(***************************************************************************)
\* A plausible slip: the filter is applied when either bound is given.
ConAlguna(fecha_inicio, fecha_fin) ==
    \/ ~fecha_inicio.es_none /\ fecha_inicio.v # <<>>
    \/ ~fecha_fin.es_none /\ fecha_fin.v # <<>>

\* if fecha_inicio and fecha_fin: None and '' are false
ConAmbas(fecha_inicio, fecha_fin) ==
    /\ ~fecha_inicio.es_none /\ fecha_inicio.v # <<>>
    /\ ~fecha_fin.es_none /\ fecha_fin.v # <<>>

\* Tramite.fecha >= fecha_inicio AND Tramite.fecha <= fecha_fin, and
\* fecha.between(fecha_inicio, fecha_fin): the column is compared with the
\* two texts as dates, both ends included.
EnRango(fecha, fecha_inicio, fecha_fin) ==
    /\ FechaLE(Strptime(fecha_inicio.v).v, fecha)
    /\ FechaLE(fecha, Strptime(fecha_fin.v).v)

\* The rows of a table the date filter of a read keeps.
FiltroFecha(rows, fecha_inicio, fecha_fin) ==
    IF ConAmbas(fecha_inicio, fecha_fin)
    THEN SelectSeq(rows, LAMBDA r : EnRango(r.fecha, fecha_inicio, fecha_fin))
    ELSE rows

\* get_top_by_ganancia(user_id, limit, fecha_inicio, fecha_fin).  The date
\* filter is a WHERE on the outer join: the row of a shop without
\* transactions has a NULL Tramite.fecha and fails it, so the groups are
\* the shops with a transaction in the range.
GetTopByGananciaEnRango(T, user_id, limit, fecha_inicio, fecha_fin) ==
    IF ~ConAmbas(fecha_inicio, fecha_fin)
    THEN GetTopByGanancia(T, user_id, limit)
    ELSE
      LET EnJoin(p) == FiltroFecha(TramitesDePapeleria(T, p), fecha_inicio, fecha_fin)
          filas ==
            { [id |-> p, nombre |-> papelerias[p].nombre,
               ganancia_total |-> Ganancia(EnJoin(p))] :
              p \in { a \in PapeleriasActivasDe(user_id) : EnJoin(a) # <<>> } }
      IN  { Limit([i \in 1..Len(s) |->
                     [nombre |-> s[i].nombre,
                      ganancia_total |-> s[i].ganancia_total]], limit) :
            s \in OrdenadasPor(filas, Descendente(filas, "ganancia_total")) }

\* get_tramites_distribution(user_id, limit, fecha_inicio, fecha_fin)
GetTramitesDistributionEnRango(T, user_id, limit, fecha_inicio, fecha_fin) ==
    GetTramitesDistribution(FiltroFecha(T, fecha_inicio, fecha_fin), user_id, limit)

\* get_total_general(user_id, fecha_inicio, fecha_fin)
GetTotalGeneralEnRango(T, user_id, fecha_inicio, fecha_fin) ==
    GetTotalGeneral(FiltroFecha(T, fecha_inicio, fecha_fin), user_id)

\* total_por_papeleria(papeleria_id, user_id, fecha_inicio, fecha_fin): no
\* join with Papeleria
TotalPorPapeleria(T, papeleria_id, user_id, fecha_inicio, fecha_fin) ==
    LET rows == FiltroFecha(SelectSeq(T, LAMBDA t :
                                t.papeleria_id = papeleria_id /\ t.user_id = user_id),
                            fecha_inicio, fecha_fin)
    IN  [cuantos |-> Len(rows),
         total_ingresos |-> SumaCampo(rows, "precio"),
         total_costos |-> SumaCampo(rows, "costo"),
         ganancia |-> SumaCampo(rows, "precio") - SumaCampo(rows, "costo")]

PerPage == 20

\* order_by(fecha.desc(), id.desc()): the ids differ, so the order is one
RecientesPrimero(rows) ==
    Unico(OrdenadasPor(Rango(rows),
            { par \in Rango(rows) \X Rango(rows) :
                \/ ~FechaLE(par[1].fecha, par[2].fecha)
                \/ par[1].fecha = par[2].fecha /\ par[1].id > par[2].id }))

\* paginate(page, per_page, error_out=False): items, total and pages
Paginate(s, page, per_page) ==
    [items |-> SubSeq(s, (page - 1) * per_page + 1,
                      IF page * per_page < Len(s) THEN page * per_page ELSE Len(s)),
     total |-> Len(s),
     pages |-> (Len(s) + per_page - 1) \div per_page]

\* get_details_for_papeleria(papeleria_id, user_id, fecha_inicio, fecha_fin,
\* page, per_page)
GetDetailsForPapeleria(T, papeleria_id, user_id, fecha_inicio, fecha_fin, page, per_page) ==
    LET rows == FiltroFecha(SelectSeq(TramitesDeActivas(T, user_id), LAMBDA t :
                                t.papeleria_id = papeleria_id),
                            fecha_inicio, fecha_fin)
    IN  Paginate(RecientesPrimero(rows), page, per_page)

\* The ids of the Proveedor rows.
Proveedores == { 1 }

SinCategoria == [es_none |-> TRUE, v |-> ""]

\* if categoria: filter_by(categoria=categoria)
FiltroCategoria(rows, categoria) ==
    IF ~categoria.es_none /\ categoria.v # ""
    THEN SelectSeq(rows, LAMBDA g : g.categoria = categoria.v)
    ELSE rows

GastosDe(G, user_id) == SelectSeq(G, LAMBDA g : g.user_id = user_id)

\* GastoRepository.get_all(user_id, page, per_page, fecha_inicio, fecha_fin,
\* categoria): items and total
GastoGetAll(G, user_id, page, per_page, fecha_inicio, fecha_fin, categoria) ==
    LET rows == SelectSeq(
                  FiltroCategoria(FiltroFecha(GastosDe(G, user_id),
                                              fecha_inicio, fecha_fin), categoria),
                  LAMBDA g : g.proveedor_id \in Proveedores)
        pagination == Paginate(RecientesPrimero(rows), page, per_page)
    IN  [items |-> pagination.items, total |-> pagination.total]

\* get_gastos_distribution(user_id, fecha_inicio, fecha_fin)
GetGastosDistribution(G, user_id, fecha_inicio, fecha_fin) ==
    LET rows == FiltroFecha(GastosDe(G, user_id), fecha_inicio, fecha_fin)
        filas ==
          { [categoria |-> c,
             total_monto |-> SumaCampo(SelectSeq(rows, LAMBDA g : g.categoria = c),
                                       "monto")] :
            c \in { g.categoria : g \in Rango(rows) } }
    IN  OrdenadasPor(filas, Descendente(filas, "total_monto"))

\* get_gastos_summary(user_id, fecha_inicio, fecha_fin, categoria)
GetGastosSummary(G, user_id, fecha_inicio, fecha_fin, categoria) ==
    [total |-> SumaCampo(FiltroCategoria(FiltroFecha(GastosDe(G, user_id),
                                                     fecha_inicio, fecha_fin),
                                         categoria), "monto")]

\* A read with one more argument (a shop id or a category).
LecturaCon(op, user_id, arg, fecha_inicio, fecha_fin, valor) ==
    /\ llamada' = [op |-> op, user_id |-> user_id, arg |-> arg,
                   fecha_inicio |-> fecha_inicio, fecha_fin |-> fecha_fin]
    /\ ret' = [status |-> "ok", id |-> 0, como |-> op, valor |-> valor]
    /\ UNCHANGED <<papelerias, precios, ultimo, tramites, nextTramite,
                   gastos, tramiteCostos, proveedores, enCurso, previo, hoy, rt>>

\* The ranges asked for: none, both bounds, and one bound only.
RangosInformes ==
    { <<SinFecha, SinFecha>>,
      <<Algun(Fecha2), Algun(Fecha1)>>,
      <<Algun(Fecha2), SinFecha>>,
      <<Algun(<<>>), Algun(Fecha1)>> }

InitInformes ==
    InitLectura(TablasDe(FilasResumen, MaxTramites), { <<>> }, { Fecha0 })

\* The shop asked about: an active one and a soft-deleted one.
PapeleriasPedidas == { 1, 3 }

NextInformes ==
    \/ \E u \in Users, r \in RangosInformes :
          Lectura("get_top_by_ganancia", u, r[1], r[2],
                  GetTopByGananciaEnRango(tramites, u, TopLimit, r[1], r[2]))
    \/ \E u \in Users, r \in RangosInformes :
          Lectura("get_tramites_distribution", u, r[1], r[2],
                  GetTramitesDistributionEnRango(tramites, u, TopLimit, r[1], r[2]))
    \/ \E u \in Users, r \in RangosInformes :
          Lectura("get_total_general", u, r[1], r[2],
                  GetTotalGeneralEnRango(tramites, u, r[1], r[2]))
    \/ \E u \in Users, p \in PapeleriasPedidas, r \in RangosInformes :
          LecturaCon("total_por_papeleria", u, p, r[1], r[2],
                     TotalPorPapeleria(tramites, p, u, r[1], r[2]))
    \/ \E u \in Users, p \in PapeleriasPedidas, r \in RangosInformes :
          LecturaCon("get_details_for_papeleria", u, p, r[1], r[2],
                     GetDetailsForPapeleria(tramites, p, u, r[1], r[2], 1, PerPage))

(***************************************************************************)
(* calcular_porcentaje on its own: the two amounts are drawn from Montos.  *)
(***************************************************************************)
MaxMonto == 6

Montos == ((0 - MaxMonto)..MaxMonto) \cup { 50, 100, 150 }

CalcularPorcentajeLlamada(actual, anterior) ==
    /\ llamada.op = "init"
    /\ llamada' = [op |-> "calcular_porcentaje", actual |-> actual,
                   anterior |-> anterior]
    /\ ret' = [status |-> "ok", id |-> 0, como |-> "calcular_porcentaje",
               valor |-> CalcularPorcentaje(actual, anterior)]
    /\ UNCHANGED <<papelerias, precios, ultimo, tramites, nextTramite,
                   gastos, tramiteCostos, proveedores, enCurso, previo, hoy, rt>>

InitPorcentaje == InitLectura({ <<>> }, { <<>> }, { Fecha0 })

NextPorcentaje ==
    \E actual \in Montos, anterior \in Montos :
        CalcularPorcentajeLlamada(actual, anterior)

SpecPorcentaje == InitPorcentaje /\ [][NextPorcentaje]_vars

(***************************************************************************)
(* get_totales_comparativa and get_meta_mensual_progress on stores with    *)
(* rows of this month, of the month before, of a year ago and after today. *)
(***************************************************************************)
InitComparativa ==
    InitLectura(TablasDe(FilasResumen, MaxTramites), { <<>> }, DiasHoy)

NextComparativa ==
    \/ \E u \in Users :
          Lectura("get_totales_comparativa", u, SinFecha, SinFecha,
                  GetTotalesComparativa(tramites, u))
    \/ \E u \in Users :
          Lectura("get_meta_mensual_progress", u, SinFecha, SinFecha,
                  GetMetaMensualProgress(tramites, u, MetaObjetivo))

SpecComparativa == InitComparativa /\ [][NextComparativa]_vars

(***************************************************************************)
(* get_roi_por_papeleria on a store where tenant 1 has one active shop     *)
(* more than the report's limit, a soft-deleted shop, and tenant 2 a shop. *)
(* Each of tenant 1's active shops has no transaction or one of those of   *)
(* OpcionesRoi; the other two shops have one transaction each.             *)
(***************************************************************************)
NombresRoi == << <<"A">>, <<"B">>, <<"C">>, <<"D">>, <<"E">>, <<"F">> >>

PapeleriasRoi ==
    [i \in 1..(RoiLimit + 1) |->
        [nombre |-> NombresRoi[i], user_id |-> 1, is_active |-> TRUE]]
    \o << [nombre |-> <<"G">>, user_id |-> 1, is_active |-> FALSE],
          [nombre |-> <<"A">>, user_id |-> 2, is_active |-> TRUE] >>

\* precio and costo of the transaction a shop may have
OpcionesRoi ==
    << << <<50, 20>>, <<50, 0>> >>,
       << <<30, 20>>, <<50, 20>> >>,
       << <<60, 20>> >>,
       << <<40, 20>> >>,
       << <<10, 20>> >>,
       << <<50, 30>> >> >>

TablaRoi(c) ==
    LET elegidas == SelectSeq([i \in 1..(RoiLimit + 1) |-> [shop |-> i, k |-> c[i]]],
                              LAMBDA e : e.k > 0)
        filas == [j \in 1..Len(elegidas) |->
                    FilaTramite(elegidas[j].shop, "ACTA", 1, Fecha1,
                        Num(OpcionesRoi[elegidas[j].shop][elegidas[j].k][1]),
                        Num(OpcionesRoi[elegidas[j].shop][elegidas[j].k][2]))]
                 \o << FilaTramite(RoiLimit + 2, "ACTA", 1, Fecha1, Num(50), Num(20)),
                       FilaTramite(RoiLimit + 3, "ACTA", 2, Fecha1, Num(50), Num(20)) >>
    IN  [j \in 1..Len(filas) |-> [filas[j] EXCEPT !.id = j]]

TablasRoi ==
    { TablaRoi(c) :
        c \in { d \in [1..(RoiLimit + 1) -> 0..2] :
                  \A i \in 1..(RoiLimit + 1) : d[i] <= Len(OpcionesRoi[i]) } }

InitRoi ==
    /\ papelerias = PapeleriasRoi
    /\ precios = EmptyBag
    /\ ultimo = [k \in PapeleriaIds \X TiposTramite |-> Ninguno]
    /\ tramites \in TablasRoi
    /\ nextTramite = Len(tramites) + 1
    /\ gastos = <<>>
    /\ tramiteCostos = <<>>
    /\ previo = PrevioApagado
    /\ enCurso = <<>>
    /\ proveedores = <<>>
    /\ hoy = Fecha0
    /\ llamada = [op |-> "init"]
    /\ ret = [status |-> "ok", id |-> 0, como |-> "init"]
    /\ rt = RtCero

NextRoi ==
    \E u \in Users :
        Lectura("get_roi_por_papeleria", u, SinFecha, SinFecha,
                GetRoiPorPapeleria(tramites, u))

SpecRoi == InitRoi /\ [][NextRoi]_vars

(***************************************************************************)
(* The reads of GastoRepository with a date range, on stores with one      *)
(* Gasto row more than MaxGastos, so that a row inside the range and a row *)
(* outside it are there together.                                          *)
(***************************************************************************)
GastosInformes ==
    { FilaGasto(1, <<"x">>, Num(7), Fecha1, "Papel", 1),
      FilaGasto(1, <<"x">>, Num(5), Fecha2, "Papel", 1),
      FilaGasto(1, <<"x">>, Num(9), Fecha3, "Renta", 1),
      FilaGasto(1, <<"x">>, Num(9), Fecha4, "Renta", 1),
      FilaGasto(2, <<"x">>, Num(7), Fecha1, "Renta", 1),
      FilaGasto(1, <<"x">>, Num(7), Fecha1, "Papel", 2) }

Categorias == { SinCategoria, Algun("Papel") }

InitGastos ==
    InitLectura({ <<>> }, TablasDe(GastosInformes, MaxGastos + 1), { Fecha0 })

NextGastos ==
    \/ \E u \in Users, r \in RangosInformes :
          Lectura("get_gastos_distribution", u, r[1], r[2],
                  GetGastosDistribution(gastos, u, r[1], r[2]))
    \/ \E u \in Users, c \in Categorias, r \in RangosInformes :
          LecturaCon("get_gastos_summary", u, c, r[1], r[2],
                     GetGastosSummary(gastos, u, r[1], r[2], c))
    \/ \E u \in Users, c \in Categorias, r \in RangosInformes :
          LecturaCon("gastos_get_all", u, c, r[1], r[2],
                     GastoGetAll(gastos, u, 1, PerPage, r[1], r[2], c))

\* The reads with a date range, of Tramite rows and of Gasto rows.
InitRango == InitInformes \/ InitGastos

NextRango == NextInformes \/ NextGastos

SpecRango == InitRango /\ [][NextRango]_vars

(***************************************************************************)
(* Default costs: set_costo and get_costo_for_tramite on table             *)
(* TramiteCosto.  The type name is used as given (no strip, no upper).     *)
(***************************************************************************)
\* TramiteCosto.query.filter_by(tramite=tramite, user_id=user_id)
FilasCosto(C, tramite, user_id) ==
    { i \in 1..Len(C) : C[i].tramite = tramite /\ C[i].user_id = user_id }

\* get_costo_for_tramite(tramite, user_id): the values .first() may give,
\* None when no row matches.
GetCostoForTramite(C, tramite, user_id) ==
    IF FilasCosto(C, tramite, user_id) = {}
    THEN { Ninguno }
    ELSE { Algun(C[i].costo) : i \in FilasCosto(C, tramite, user_id) }

\* A plausible slip: the row to update is looked up by type name only.
SetCostoSinTenant(tramite, costo, user_id) ==
    LET c == Float(costo)
        filas == { i \in 1..Len(tramiteCostos) : tramiteCostos[i].tramite = tramite }
    IN  /\ llamada' = [op |-> "set_costo", user_id |-> user_id,
                       tramite |-> tramite, costo |-> costo]
        /\ IF ~c.ok
           THEN /\ UNCHANGED tramiteCostos
                /\ ret' = [status |-> "ValueError", id |-> 0, como |-> "set_costo"]
           ELSE /\ IF filas # {}
                   THEN \E i \in filas :
                          tramiteCostos' = [tramiteCostos EXCEPT ![i].costo = c.v]
                   ELSE tramiteCostos' = Append(tramiteCostos,
                          [id |-> Len(tramiteCostos) + 1, tramite |-> tramite,
                           costo |-> c.v, user_id |-> user_id])
                /\ ret' = [status |-> "ok", id |-> 0, como |-> "set_costo"]
        /\ rt' = RtCero
        /\ UNCHANGED <<papelerias, precios, ultimo, tramites, nextTramite, gastos,
                   proveedores, enCurso, previo, hoy>>

\* set_costo(tramite, costo, user_id): update the row .first() gives, or
\* insert one; float(costo) raises before anything is changed.
SetCosto(tramite, costo, user_id) ==
    LET c == Float(costo)
        filas == FilasCosto(tramiteCostos, tramite, user_id)
    IN  /\ llamada' = [op |-> "set_costo", user_id |-> user_id,
                       tramite |-> tramite, costo |-> costo]
        /\ IF ~c.ok
           THEN /\ UNCHANGED tramiteCostos
                /\ ret' = [status |-> "ValueError", id |-> 0, como |-> "set_costo"]
           ELSE /\ IF filas # {}
                   THEN \E i \in filas :
                          tramiteCostos' = [tramiteCostos EXCEPT ![i].costo = c.v]
                   ELSE tramiteCostos' = Append(tramiteCostos,
                          [id |-> Len(tramiteCostos) + 1, tramite |-> tramite,
                           costo |-> c.v, user_id |-> user_id])
                /\ ret' = [status |-> "ok", id |-> 0, como |-> "set_costo"]
        /\ rt' = RtCero
        /\ UNCHANGED <<papelerias, precios, ultimo, tramites, nextTramite, gastos,
                   proveedores, enCurso, previo, hoy>>

\* The costs given to set_costo: two numbers, a text that is a number and
\* a text that is none.
CostosDados == { Num(20), Num(25), Str(<<"3", "5">>), Str(<<"x">>) }

InitCostos == InitLectura({ <<>> }, { <<>> }, { Fecha0 })

NextCostos ==
    \/ \E t \in TiposTramite, c \in CostosDados, u \in Users : SetCosto(t, c, u)
    \/ \E t \in TiposTramite, u \in Users :
          LecturaCon("get_costo_for_tramite", u, t, SinFecha, SinFecha,
                     GetCostoForTramite(tramiteCostos, t, u))

SpecCostos == InitCostos /\ [][NextCostos]_vars

(***************************************************************************)
(* Editing one row: TramiteRepository, GastoRepository and                 *)
(* ProveedorRepository get_by_id / update / delete.  The store is drawn    *)
(* as a sequence of adds left it; each call finds its row by id and        *)
(* tenant.                                                                 *)
(***************************************************************************)
\* A plausible slip: the row is looked up by id only.
GetByIdSinTenant(T, id, user_id) == { i \in 1..Len(T) : T[i].id = id }

\* query.filter_by(id=..., user_id=...).first(): the indexes of the rows
\* found (none or one, id being the primary key)
GetById(T, id, user_id) ==
    { i \in 1..Len(T) : T[i].id = id /\ T[i].user_id = user_id }

\* db.session.delete(row); commit
SinFila(T, i) == [k \in 1..(Len(T) - 1) |-> IF k < i THEN T[k] ELSE T[k + 1]]

\* The frame of an edit of one table: the two tables named are the ones
\* the call may change.
TramiteUpdate(tramite_id, user_id, fecha, tramite, precio, costo) ==
    LET filas == GetById(tramites, tramite_id, user_id)
        fecha_dt == Strptime(fecha)
        p == Float(precio)
        c == Float(costo)
    IN  /\ llamada' = [op |-> "tramite_update", user_id |-> user_id,
                       id |-> tramite_id]
        /\ IF filas = {}
           THEN /\ UNCHANGED tramites
                /\ ret' = [status |-> "ok", id |-> 0, como |-> "tramite_update",
                           valor |-> Ninguno]
           ELSE IF fecha_dt.ok /\ p.ok /\ c.ok
           THEN /\ \E i \in filas :
                     tramites' = [tramites EXCEPT ![i].fecha = fecha_dt.v,
                                                  ![i].tramite = tramite,
                                                  ![i].precio = p.v,
                                                  ![i].costo = c.v]
                /\ ret' = [status |-> "ok", id |-> 0, como |-> "tramite_update",
                           valor |-> Ninguno]
           ELSE \* strptime or float raised before the commit
                /\ UNCHANGED tramites
                /\ ret' = [status |-> "ValueError", id |-> 0,
                           como |-> "tramite_update", valor |-> Ninguno]
        /\ rt' = RtCero
        /\ UNCHANGED <<papelerias, precios, ultimo, nextTramite, gastos,
                       tramiteCostos, proveedores, enCurso, previo, hoy>>

\* delete(tramite_id, user_id): the papeleria_id of the row removed, or None
TramiteDelete(tramite_id, user_id) ==
    LET filas == GetById(tramites, tramite_id, user_id)
    IN  /\ llamada' = [op |-> "tramite_delete", user_id |-> user_id,
                       id |-> tramite_id]
        /\ IF filas = {}
           THEN /\ UNCHANGED tramites
                /\ ret' = [status |-> "ok", id |-> 0, como |-> "tramite_delete",
                           valor |-> Ninguno]
           ELSE \E i \in filas :
                  /\ tramites' = SinFila(tramites, i)
                  /\ ret' = [status |-> "ok", id |-> 0, como |-> "tramite_delete",
                             valor |-> Algun(tramites[i].papeleria_id)]
        /\ rt' = RtCero
        /\ UNCHANGED <<papelerias, precios, ultimo, nextTramite, gastos,
                       tramiteCostos, proveedores, enCurso, previo, hoy>>

\* GastoRepository.update: no check is made on proveedor_id.
GastoUpdate(gasto_id, user_id, proveedor_id, descripcion, monto, fecha, categoria) ==
    LET filas == GetById(gastos, gasto_id, user_id)
        m == Float(monto)
        fecha_dt == Strptime(fecha)
    IN  /\ llamada' = [op |-> "gasto_update", user_id |-> user_id,
                       id |-> gasto_id]
        /\ IF filas = {}
           THEN /\ UNCHANGED gastos
                /\ ret' = [status |-> "ok", id |-> 0, como |-> "gasto_update",
                           valor |-> Ninguno]
           ELSE IF m.ok /\ fecha_dt.ok
           THEN /\ \E i \in filas :
                     gastos' = [gastos EXCEPT ![i].proveedor_id = proveedor_id,
                                              ![i].descripcion = descripcion,
                                              ![i].monto = m.v,
                                              ![i].fecha = fecha_dt.v,
                                              ![i].categoria = categoria]
                /\ ret' = [status |-> "ok", id |-> 0, como |-> "gasto_update",
                           valor |-> Ninguno]
           ELSE /\ UNCHANGED gastos
                /\ ret' = [status |-> "ValueError", id |-> 0,
                           como |-> "gasto_update", valor |-> Ninguno]
        /\ rt' = RtCero
        /\ UNCHANGED <<papelerias, precios, ultimo, tramites, nextTramite,
                       tramiteCostos, proveedores, enCurso, previo, hoy>>

GastoDelete(gasto_id, user_id) ==
    LET filas == GetById(gastos, gasto_id, user_id)
    IN  /\ llamada' = [op |-> "gasto_delete", user_id |-> user_id,
                       id |-> gasto_id]
        /\ IF filas = {}
           THEN UNCHANGED gastos
           ELSE \E i \in filas : gastos' = SinFila(gastos, i)
        /\ ret' = [status |-> "ok", id |-> 0, como |-> "gasto_delete",
                   valor |-> Ninguno]
        /\ rt' = RtCero
        /\ UNCHANGED <<papelerias, precios, ultimo, tramites, nextTramite,
                       tramiteCostos, proveedores, enCurso, previo, hoy>>

\* ProveedorRepository.update: the name is stored stripped and upper-cased.
ProveedorUpdate(proveedor_id, nombre, user_id) ==
    LET filas == GetById(proveedores, proveedor_id, user_id)
    IN  /\ llamada' = [op |-> "proveedor_update", user_id |-> user_id,
                       id |-> proveedor_id]
        /\ IF filas = {}
           THEN UNCHANGED proveedores
           ELSE \E i \in filas :
                  proveedores' = [proveedores EXCEPT ![i].nombre = Normalizar(nombre)]
        /\ ret' = [status |-> "ok", id |-> 0, como |-> "proveedor_update",
                   valor |-> Ninguno]
        /\ rt' = RtCero
        /\ UNCHANGED <<papelerias, precios, ultimo, tramites, nextTramite,
                       gastos, tramiteCostos, enCurso, previo, hoy>>

\* is_in_use(proveedor_id, user_id): a Gasto of the tenant names the supplier
IsInUse(G, proveedor_id, user_id) ==
    \E g \in Rango(G) : g.proveedor_id = proveedor_id /\ g.user_id = user_id

\* ProveedorRepository.delete: the row found is deleted; is_in_use is not
\* called and the Gasto rows are left as they are.
ProveedorDelete(proveedor_id, user_id) ==
    LET filas == GetById(proveedores, proveedor_id, user_id)
    IN  /\ llamada' = [op |-> "proveedor_delete", user_id |-> user_id,
                       id |-> proveedor_id]
        /\ IF filas = {}
           THEN UNCHANGED proveedores
           ELSE \E i \in filas : proveedores' = SinFila(proveedores, i)
        /\ ret' = [status |-> "ok", id |-> 0, como |-> "proveedor_delete",
                   valor |-> Ninguno]
        /\ rt' = RtCero
        /\ UNCHANGED <<papelerias, precios, ultimo, tramites, nextTramite,
                       gastos, tramiteCostos, enCurso, previo, hoy>>

\* The Proveedor row ProveedorRepository.add stores.
FilaProveedor(nombre, user_id) ==
    [id |-> 0, nombre |-> Normalizar(nombre), user_id |-> user_id]

\* The stores edited: transactions alone, or suppliers (one for each tenant
\* at most) with expenses that name a supplier of the store.
MaxProveedores == Cardinality(Users)

FilasEdicion ==
    { FilaTramite(1, "ACTA", 1, Fecha1, Num(50), Num(20)),
      FilaTramite(2, "ACTA", 2, Fecha1, Num(50), Num(20)) }

ProveedoresEdicion == { FilaProveedor(<<"a">>, u) : u \in Users }

GastosEdicion ==
    { FilaGasto(p, <<"x">>, Num(7), Fecha1, "LUZ", u) :
        p \in 1..MaxProveedores, u \in Users }

InitEdicion ==
    /\ papelerias = PapeleriasConPrecios
    /\ precios = EmptyBag
    /\ ultimo = [k \in PapeleriaIds \X TiposTramite |-> Ninguno]
    /\ \/ /\ tramites \in TablasDe(FilasEdicion, MaxTramites)
          /\ gastos = <<>>
          /\ proveedores = <<>>
       \/ /\ tramites = <<>>
          /\ proveedores \in TablasDe(ProveedoresEdicion, MaxProveedores)
          /\ gastos \in TablasDe(GastosEdicion, MaxGastos)
          /\ \A g \in Rango(gastos) :
                \E p \in Rango(proveedores) :
                   p.id = g.proveedor_id /\ p.user_id = g.user_id
    /\ nextTramite = Len(tramites) + 1
    /\ tramiteCostos = <<>>
    /\ previo = PrevioApagado
    /\ enCurso = <<>>
    /\ hoy = Fecha0
    /\ llamada = [op |-> "init"]
    /\ ret = [status |-> "ok", id |-> 0, como |-> "init"]
    /\ rt = RtCero

\* What an update writes: a good date or one strptime rejects.
FechasEdicion == { Fecha2, FechaMala }

NextEdicion ==
    \/ \E i \in 1..(MaxTramites + 1), u \in Users, f \in FechasEdicion :
          TramiteUpdate(i, u, f, "CURP", Num(30), Num(10))
    \/ \E i \in 1..(MaxTramites + 1), u \in Users : TramiteDelete(i, u)
    \/ \E i \in 1..(MaxGastos + 1), u \in Users, f \in FechasEdicion :
          \E p \in { q.id : q \in Rango(proveedores) } :
             GastoUpdate(i, u, p, <<"y">>, Str(<<"9">>), f, "AGUA")
    \/ \E i \in 1..(MaxGastos + 1), u \in Users : GastoDelete(i, u)
    \/ \E i \in 1..(MaxProveedores + 1), u \in Users :
          ProveedorUpdate(i, <<" ", "b">>, u)
    \/ \E i \in 1..(MaxProveedores + 1), u \in Users : ProveedorDelete(i, u)

SpecEdicion == InitEdicion /\ [][NextEdicion]_vars

(***************************************************************************)
(* PapeleriaRepository.add as the statements of two calls in flight: the   *)
(* query for an active shop, the query for a soft-deleted one and the      *)
(* insert are three statements, each on the store as committed then.       *)
(***************************************************************************)
Procesos == { 1, 2 }

Libre == [pc |-> "libre", nombre |-> <<>>, user_id |-> 0]

\* A plausible slip: the insert looks for an active shop of that name again
\* and raises the duplicate error when there is one.
AddInsertaVerificando(p) ==
    LET nn == enCurso[p].nombre
        user_id == enCurso[p].user_id
    IN  /\ enCurso[p].pc = "insertar"
        /\ Len(papelerias) < MaxPapelerias
        /\ llamada' = [op |-> "add_insertar", nombre |-> nn, user_id |-> user_id]
        /\ IF PapeleriasConNombre(nn, user_id, TRUE) # {}
           THEN /\ papelerias' = papelerias
                /\ ret' = [status |-> "ValueError", id |-> 0, como |-> "duplicada"]
           ELSE /\ papelerias' = Append(papelerias,
                        [nombre |-> nn, user_id |-> user_id, is_active |-> TRUE])
                /\ ret' = [status |-> "ok", id |-> Len(papelerias) + 1,
                           como |-> "creada"]
        /\ enCurso' = [enCurso EXCEPT ![p] = Libre]
        /\ rt' = RtCero
        /\ UNCHANGED <<precios, ultimo, tramites, nextTramite, gastos,
                       tramiteCostos, proveedores, previo, hoy>>

\* normalized_nombre = nombre.strip().upper(): the call begins
AddInicia(p, nombre, user_id) ==
    /\ enCurso[p].pc = "libre"
    /\ enCurso' = [enCurso EXCEPT ![p] = [pc |-> "verificar_activa",
                                          nombre |-> Normalizar(nombre),
                                          user_id |-> user_id]]
    /\ llamada' = [op |-> "add_inicia", nombre |-> nombre, user_id |-> user_id]
    /\ ret' = [status |-> "ok", id |-> 0, como |-> "en curso"]
    /\ rt' = RtCero
    /\ UNCHANGED <<papelerias, precios, ultimo, tramites, nextTramite, gastos,
                   tramiteCostos, proveedores, previo, hoy>>

\* 1. existing_active: raise ValueError when there is one
AddVerificaActiva(p) ==
    LET nn == enCurso[p].nombre
        user_id == enCurso[p].user_id
    IN  /\ enCurso[p].pc = "verificar_activa"
        /\ llamada' = [op |-> "add_verificar_activa", nombre |-> nn,
                       user_id |-> user_id]
        /\ IF PapeleriasConNombre(nn, user_id, TRUE) # {}
           THEN /\ enCurso' = [enCurso EXCEPT ![p] = Libre]
                /\ ret' = [status |-> "ValueError", id |-> 0, como |-> "duplicada"]
           ELSE /\ enCurso' = [enCurso EXCEPT ![p].pc = "verificar_inactiva"]
                /\ ret' = [status |-> "ok", id |-> 0, como |-> "en curso"]
        /\ rt' = RtCero
        /\ UNCHANGED <<papelerias, precios, ultimo, tramites, nextTramite, gastos,
                       tramiteCostos, proveedores, previo, hoy>>

\* 2. existing_inactive: reactivate it and commit when there is one
AddVerificaInactiva(p) ==
    LET nn == enCurso[p].nombre
        user_id == enCurso[p].user_id
    IN  /\ enCurso[p].pc = "verificar_inactiva"
        /\ llamada' = [op |-> "add_verificar_inactiva", nombre |-> nn,
                       user_id |-> user_id]
        /\ IF PapeleriasConNombre(nn, user_id, FALSE) # {}
           THEN \E i \in PapeleriasConNombre(nn, user_id, FALSE) :
                  /\ papelerias' = [papelerias EXCEPT ![i].is_active = TRUE]
                  /\ enCurso' = [enCurso EXCEPT ![p] = Libre]
                  /\ ret' = [status |-> "ok", id |-> i, como |-> "reactivada"]
           ELSE /\ papelerias' = papelerias
                /\ enCurso' = [enCurso EXCEPT ![p].pc = "insertar"]
                /\ ret' = [status |-> "ok", id |-> 0, como |-> "en curso"]
        /\ rt' = RtCero
        /\ UNCHANGED <<precios, ultimo, tramites, nextTramite, gastos,
                       tramiteCostos, proveedores, previo, hoy>>

\* 3. the insert and its commit.  Nothing is read again.  Whether the table
\* has a unique constraint is not in this file: when a row of that tenant
\* and name is there, the insert either goes through or the store raises
\* IntegrityError, which becomes a ValueError after the rollback.
AddInserta(p) ==
    LET nn == enCurso[p].nombre
        user_id == enCurso[p].user_id
        repetida == \E i \in 1..Len(papelerias) :
                       /\ papelerias[i].nombre = nn
                       /\ papelerias[i].user_id = user_id
    IN  /\ enCurso[p].pc = "insertar"
        /\ Len(papelerias) < MaxPapelerias
        /\ llamada' = [op |-> "add_insertar", nombre |-> nn, user_id |-> user_id]
        /\ \/ /\ papelerias' = Append(papelerias,
                        [nombre |-> nn, user_id |-> user_id, is_active |-> TRUE])
              /\ ret' = [status |-> "ok", id |-> Len(papelerias) + 1,
                         como |-> "creada"]
           \/ /\ repetida
              /\ papelerias' = papelerias
              /\ ret' = [status |-> "ValueError", id |-> 0, como |-> "integridad"]
        /\ enCurso' = [enCurso EXCEPT ![p] = Libre]
        /\ rt' = RtCero
        /\ UNCHANGED <<precios, ultimo, tramites, nextTramite, gastos,
                       tramiteCostos, proveedores, previo, hoy>>

\* Two workers serve add and delete calls on an empty store.
NombresConcurrentes == { <<"a">>, <<" ", "A">> }

InitConcurrente ==
    /\ papelerias = <<>>
    /\ precios = EmptyBag
    /\ ultimo = [k \in PapeleriaIds \X TiposTramite |-> Ninguno]
    /\ tramites = <<>>
    /\ nextTramite = 1
    /\ gastos = <<>>
    /\ tramiteCostos = <<>>
    /\ previo = PrevioApagado
    /\ proveedores = <<>>
    /\ enCurso = [p \in Procesos |-> Libre]
    /\ hoy = Fecha0
    /\ llamada = [op |-> "init"]
    /\ ret = [status |-> "ok", id |-> 0, como |-> "init"]
    /\ rt = RtCero

NextConcurrente ==
    \/ \E p \in Procesos, n \in NombresConcurrentes, u \in Users : AddInicia(p, n, u)
    \/ \E p \in Procesos : AddVerificaActiva(p)
    \/ \E p \in Procesos : AddVerificaInactiva(p)
    \/ \E p \in Procesos : AddInserta(p)
    \/ \E i \in PapeleriaIds, u \in Users : Delete(i, u)

SpecConcurrente == InitConcurrente /\ [][NextConcurrente]_vars

(***************************************************************************)
(* The monthly goal read on the days around the end of a month and of a    *)
(* year.                                                                   *)
(***************************************************************************)
DiasMeta ==
    { MasDias(Fecha(2024, 2, 24), k) : k \in 0..13 }
      \cup { MasDias(Fecha(2024, 12, 28), k) : k \in 0..6 }

FilasMeta ==
    { FilaTramite(1, "ACTA", 1, Fecha1, Num(50), Num(20)),
      FilaTramite(1, "CURP", 1, Fecha2, Num(30), Num(0)) }

InitMeta == InitLectura(TablasDe(FilasMeta, MaxTramites), { <<>> }, DiasMeta)

NextMeta ==
    \E u \in Users :
       Lectura("get_meta_mensual_progress", u, SinFecha, SinFecha,
               GetMetaMensualProgress(tramites, u, MetaObjetivo))

SpecMeta == InitMeta /\ [][NextMeta]_vars

(***************************************************************************)
(* The monthly summary asked for a range that starts within a month.       *)
(***************************************************************************)
Fecha6 == <<"2", "0", "2", "4", "-", "0", "3", "-", "3", "1">>

\* A range from the 20th to the end of a month, and one over two months.
RangosDentroDelMes ==
    { <<Algun(Fecha3), Algun(Fecha6)>>,
      <<Algun(Fecha2), Algun(Fecha1)>> }

NextResumenRango ==
    \E u \in Users, r \in RangosDentroDelMes :
        Lectura("get_monthly_summary", u, r[1], r[2],
                GetMonthlySummary(tramites, gastos, u, r[1], r[2]))

SpecResumenRango == InitResumen /\ [][NextResumenRango]_vars

(***************************************************************************)
(* Closing and reopening shops that have prices and transactions: each     *)
(* tenant has an active shop "A" with a price and a transaction.           *)
(***************************************************************************)
PreciosCierre ==
    SetToBag({ [papeleria_id |-> 1, tramite |-> "ACTA", precio |-> 10],
               [papeleria_id |-> 2, tramite |-> "ACTA", precio |-> 0] })

TramitesCierre ==
    << [FilaTramite(1, "ACTA", 1, Fecha1, Num(50), Num(20)) EXCEPT !.id = 1],
       [FilaTramite(2, "ACTA", 2, Fecha1, Num(50), Num(20)) EXCEPT !.id = 2] >>

InitCierre ==
    /\ papelerias = SubSeq(PapeleriasConPrecios, 1, 2)
    /\ precios = PreciosCierre
    /\ ultimo = UltimoDe(precios)
    /\ tramites = TramitesCierre
    /\ nextTramite = Len(tramites) + 1
    /\ gastos = <<>>
    /\ tramiteCostos = <<>>
    /\ proveedores = <<>>
    /\ enCurso = <<>>
    /\ previo = PrevioEncendido
    /\ hoy = Fecha0
    /\ llamada = [op |-> "init"]
    /\ ret = [status |-> "ok", id |-> 0, como |-> "init"]
    /\ rt = RtCero

NombresCierre == { <<"a">> }

NextCierre ==
    \/ \E n \in NombresCierre, u \in Users : Add(n, u)
    \/ \E i \in PapeleriaIds, u \in Users : Delete(i, u)
    \/ \E i \in PapeleriaIds, u \in Users : UpdateName(i, <<"b">>, u)

SpecCierre == InitCierre /\ [][NextCierre]_vars

(***************************************************************************)
(* One call of set_precios_bulk for any shop id, the id after the last     *)
(* shop row included.                                                      *)
(***************************************************************************)
NextPreciosDeCualquiera ==
    /\ llamada.op = "init"
    /\ \E i \in 1..(Len(papelerias) + 1), d \in PreciosData, u \in Users :
          \E f \in FallosPosibles : SetPreciosBulk(i, d, u, f)

SpecPreciosDeCualquiera == InitUnaLlamada /\ [][NextPreciosDeCualquiera]_vars

(***************************************************************************)
(* TramiteRepository.update_old_costos on transactions stored with cost 0. *)
(***************************************************************************)
\* get_all_costos(user_id): the dict {c.tramite: c.costo}; a later row of a
\* type replaces an earlier one.
GetAllCostos(C, user_id) ==
    [t \in { C[i].tramite : i \in { j \in 1..Len(C) : C[j].user_id = user_id } } |->
        LET filas == FilasCosto(C, t, user_id)
        IN  C[CHOOSE i \in filas : \A j \in filas : j <= i].costo]

\* filter_by(tramite=tramite, costo=0, user_id=user_id) for a type of the dict
FilasSinCosto(T, costos_default, user_id) ==
    { i \in 1..Len(T) : /\ T[i].user_id = user_id
                        /\ T[i].costo = 0
                        /\ T[i].tramite \in DOMAIN costos_default }

\* update_old_costos(user_id): each UPDATE reports the rows its WHERE
\* matched; their sum is returned.
UpdateOldCostos(user_id) ==
    LET costos_default == GetAllCostos(tramiteCostos, user_id)
        filas == FilasSinCosto(tramites, costos_default, user_id)
    IN  /\ llamada' = [op |-> "update_old_costos", user_id |-> user_id]
        /\ tramites' = [i \in 1..Len(tramites) |->
                          IF i \in filas
                          THEN [tramites[i] EXCEPT
                                  !.costo = costos_default[tramites[i].tramite]]
                          ELSE tramites[i]]
        /\ ret' = [status |-> "ok", id |-> 0, como |-> "update_old_costos",
                   valor |-> Cardinality(filas)]
        /\ rt' = RtCero
        /\ UNCHANGED <<papelerias, precios, ultimo, nextTramite, gastos,
                       tramiteCostos, proveedores, enCurso, previo, hoy>>

\* Transactions stored with and without a cost, of both tenants; default
\* costs are set for one type, 0 being a cost set_costo accepts.
FilasViejas ==
    { FilaTramite(1, "ACTA", 1, Fecha1, Num(50), Num(0)),
      FilaTramite(1, "ACTA", 1, Fecha1, Num(50), Num(5)),
      FilaTramite(1, "CURP", 1, Fecha1, Num(50), Num(0)),
      FilaTramite(2, "ACTA", 2, Fecha1, Num(50), Num(0)) }

CostosViejos == { Num(0), Num(20) }

InitCostosViejos ==
    InitLectura(TablasDe(FilasViejas, MaxTramites), { <<>> }, { Fecha0 })

NextCostosViejos ==
    \/ \E c \in CostosViejos, u \in Users : SetCosto("ACTA", c, u)
    \/ \E u \in Users : UpdateOldCostos(u)

SpecCostosViejos == InitCostosViejos /\ [][NextCostosViejos]_vars

(***************************************************************************)
(* Claims about the shops.                                                 *)
(***************************************************************************)
\* The tenant's active shops whose stored name is the trimmed, upper-cased
\* nombre.
ActivasLlamadas(nombre, user_id) ==
    { i \in 1..Len(papelerias) :
        /\ papelerias[i].user_id = user_id
        /\ papelerias[i].is_active
        /\ papelerias[i].nombre = Upper(Strip(nombre)) }

\* C1: add(nombre, user_id) raises ValueError and changes no row whenever the
\* tenant already has an active shop whose stored name is the trimmed,
\* upper-cased nombre, whatever the case and surrounding blanks of nombre.
C1_AddDuplicadaFalla ==
    [][ (/\ llamada'.op = "add"
         /\ ActivasLlamadas(llamada'.nombre, llamada'.user_id) # {})
        => (ret'.status = "ValueError" /\ papelerias' = papelerias) ]_vars

\* An add of " a" was refused because the shop "A" is active.
C1_Witness ==
    /\ llamada.op = "add"
    /\ llamada.nombre = <<" ", "a">>
    /\ ret.status = "ValueError"
    /\ \E i \in 1..Len(papelerias) :
          /\ papelerias[i].nombre = <<"A">>
          /\ papelerias[i].user_id = llamada.user_id
          /\ papelerias[i].is_active

\* C2: after add(X) that inserted row id, delete(id) and add(X) again, the
\* second add succeeds with the same id, the row is active, and it is the
\* only row of that tenant and normalized name.
C2_RoundTripReactiva ==
    rt.fase = 3 =>
        /\ ret.status = "ok"
        /\ ret.id = rt.id
        /\ papelerias[rt.id].is_active
        /\ Cardinality({ i \in 1..Len(papelerias) :
                           /\ papelerias[i].user_id = rt.user_id
                           /\ papelerias[i].nombre = rt.nombre }) = 1

\* The round trip was completed, the second add spelling the name differently.
C2_Witness ==
    /\ rt.fase = 3
    /\ ret.como = "reactivada"
    /\ Len(papelerias) > 1

\* C3: each (tenant, normalized name) has at most one active shop.
C3_UnaActivaPorNombre ==
    \A i, j \in 1..Len(papelerias) :
        (/\ papelerias[i].is_active
         /\ papelerias[j].is_active
         /\ papelerias[i].user_id = papelerias[j].user_id
         /\ papelerias[i].nombre = papelerias[j].nombre) => i = j

(***************************************************************************)
(* Claims about set_precios_bulk.                                          *)
(***************************************************************************)
\* A price that is empty or whitespace-only.
EnBlanco(x) == x.tipo = "str" /\ Strip(x.s) = <<>>

\* A non-blank price that is not a number or is negative.
EntradaInvalida(x) ==
    \/ x.tipo = "str" /\ ~EnBlanco(x) /\ ~ParseFloat(x.s).ok
    \/ x.tipo = "str" /\ ~EnBlanco(x) /\ ParseFloat(x.s).ok /\ ParseFloat(x.s).v < 0
    \/ x.tipo = "num" /\ x.n < 0

Invalidas(data) == { i \in 1..Len(data) : EntradaInvalida(data[i][2]) }

\* The call of this step reached the validation: the shop is an active shop
\* of the caller.
LlegaAValidar ==
    /\ llamada'.op = "set_precios_bulk"
    /\ PapeleriaActivaDe(llamada'.papeleria_id, llamada'.user_id) # {}

\* C4: a call on an active shop of the tenant with at least one invalid
\* (non-blank, non-numeric or negative) price returns (None, errors) with
\* exactly one message per invalid entry, and writes no price row.
C4_ValidaTodoAntes ==
    [][ (LlegaAValidar /\ Invalidas(llamada'.precios_data) # {})
        => LET data == llamada'.precios_data IN
           /\ ret'.valid_precios.es_none
           /\ Len(ret'.errors) = Cardinality(Invalidas(data))
           /\ \A i \in Invalidas(data) :
                 Cardinality({ j \in 1..Len(ret'.errors) :
                                 ret'.errors[j].tramite = data[i][1] }) = 1
           /\ precios' = precios ]_vars

\* A negative and a non-numeric price were both reported; the table, which
\* held prices, is as it was.
C4_Witness ==
    /\ llamada.op = "set_precios_bulk"
    /\ llamada.precios_data =
          << <<"ACTA", Str(<<"-", "5">>)>>, <<"CURP", Str(<<"a">>)>> >>
    /\ ret.valid_precios.es_none
    /\ Len(ret.errors) = 2
    /\ ret.errors[1].error = "negativo"
    /\ ret.errors[2].error = "no_numero"
    /\ precios # EmptyBag

\* C5: a blank price produces no error and leaves the rows of its (shop,
\* type) as they were (none is created, a stored price is not overwritten);
\* when the call succeeds the other entries are stored.
C5_BlancoSeOmite ==
    [][ LlegaAValidar
        => LET data == llamada'.precios_data
               pid == llamada'.papeleria_id
           IN  \A i \in 1..Len(data) :
                 IF EnBlanco(data[i][2])
                 THEN /\ \A j \in 1..Len(ret'.errors) :
                            ret'.errors[j] # [error |-> "db"]
                                => ret'.errors[j].tramite # data[i][1]
                      /\ FilasPrecio(precios', pid, data[i][1])
                            = FilasPrecio(precios, pid, data[i][1])
                      /\ NumFilasPrecio(precios', pid, data[i][1])
                            = NumFilasPrecio(precios, pid, data[i][1])
                 ELSE (~ret'.valid_precios.es_none /\ data[i][2].tipo = "str")
                        => FilasPrecio(precios', pid, data[i][1])
                             = {[papeleria_id |-> pid, tramite |-> data[i][1],
                                 precio |-> ParseFloat(data[i][2].s).v]} ]_vars

\* A call with a whitespace-only CURP price and a new ACTA price succeeded:
\* the stored CURP price 10 is still there, ACTA is now 0.
C5_Witness ==
    /\ llamada.op = "set_precios_bulk"
    /\ llamada.papeleria_id = 1
    /\ llamada.precios_data =
          << <<"CURP", Str(<<" ">>)>>, <<"ACTA", Str(<<"0">>)>> >>
    /\ ret.errors = <<>>
    /\ FilasPrecio(precios, 1, "CURP")
          = {[papeleria_id |-> 1, tramite |-> "CURP", precio |-> 10]}
    /\ FilasPrecio(precios, 1, "ACTA")
          = {[papeleria_id |-> 1, tramite |-> "ACTA", precio |-> 0]}

\* Each (shop, type) that was given a valid price has exactly one row, which
\* holds the last price given, and get_default_precio returns it.
UnaFilaConElUltimo ==
    \A k \in DOMAIN ultimo :
        ~ultimo[k].es_none =>
            /\ NumFilasPrecio(precios, k[1], k[2]) = 1
            /\ FilasPrecio(precios, k[1], k[2])
                  = {[papeleria_id |-> k[1], tramite |-> k[2],
                      precio |-> ultimo[k].v]}
            /\ \A u \in Users :
                  PapeleriaActivaDe(k[1], u) # {}
                      => GetDefaultPrecios(k[1], k[2], u) = {ultimo[k].v}

\* A successful call whose prices are all the stored ones changes no row.
RepetirNoCambia ==
    (/\ llamada'.op = "set_precios_bulk"
     /\ ~ret'.valid_precios.es_none
     /\ \A i \in 1..Len(ret'.valid_precios.v) :
           /\ NumFilasPrecio(precios, llamada'.papeleria_id,
                             ret'.valid_precios.v[i][1]) = 1
           /\ FilasPrecio(precios, llamada'.papeleria_id, ret'.valid_precios.v[i][1])
                 = {[papeleria_id |-> llamada'.papeleria_id,
                     tramite |-> ret'.valid_precios.v[i][1],
                     precio |-> ret'.valid_precios.v[i][2]]})
    => precios' = precios

\* C6: after any sequence of set_precios_bulk calls there is exactly one row
\* per (shop, type) ever given a valid price, holding the most recent one
\* (get_default_precio returns it), and a call that repeats the stored
\* values changes neither the rows nor their values.
C6_UnaFilaUltimoPrecio == []UnaFilaConElUltimo /\ [][RepetirNoCambia]_vars

\* Both shops hold prices, shop 1 for both types, and the last call set
\* ACTA of shop 1 to 0 where it had been 10 or unset.
C6_Witness ==
    /\ ultimo[<<1, "ACTA">>] = Algun(0)
    /\ ultimo[<<1, "CURP">>] = Algun(10)
    /\ ultimo[<<2, "ACTA">>] = Algun(10)
    /\ BagCardinality(precios) = 3
    /\ llamada.op = "set_precios_bulk"
    /\ ret.valid_precios = Algun(<< <<"ACTA", 0>> >>)

\* C7: when the store fails in the upsert phase (after any number of prices
\* were updated or added in the session, or at the commit), the rows and
\* their values are as before the call and the call returns
\* (None, [one message]).
C7_FalloRevierteTodo ==
    [][ (/\ LlegaAValidar
         /\ Invalidas(llamada'.precios_data) = {}
         /\ llamada'.fallo >= 0)
        => /\ precios' = precios
           /\ ultimo' = ultimo
           /\ ret' = [valid_precios |-> NingunaLista,
                      errors |-> <<[error |-> "db"]>>] ]_vars

\* The store failed at the commit, after two prices had been written in the
\* session, one over a stored price.
C7_Witness ==
    /\ llamada.op = "set_precios_bulk"
    /\ llamada.fallo = 2
    /\ llamada.papeleria_id = 1
    /\ llamada.precios_data =
          << <<"ACTA", Str(<<"1", "0">>)>>, <<"CURP", Num(5)>> >>
    /\ ret = [valid_precios |-> NingunaLista, errors |-> <<[error |-> "db"]>>]
    /\ FilasPrecio(precios, 1, "ACTA")
          = {[papeleria_id |-> 1, tramite |-> "ACTA", precio |-> 0]}

(***************************************************************************)
(* Claims about the reports.                                               *)
(***************************************************************************)
\* The aggregate reads that tenant user_id can make on the store.
LecturasDe(user_id) ==
    [top_by_ganancia |-> GetTopByGanancia(tramites, user_id, TopLimit),
     roi_por_papeleria |-> GetRoiPorPapeleria(tramites, user_id),
     monthly_summary |-> GetMonthlySummary(tramites, gastos, user_id,
                                           SinFecha, SinFecha),
     tramites_distribution |-> GetTramitesDistribution(tramites, user_id, TopLimit),
     total_general |-> GetTotalGeneral(tramites, user_id),
     papelerias_and_totals |-> GetPapeleriasAndTotalsForUser(tramites, user_id)]

\* C8: a repository call made with one tenant's user_id leaves every
\* aggregate read of every other tenant as it was (tenant isolation),
\* add_bulk with any papeleria_id included.
C8_AislamientoDeTenants ==
    [][ \A b \in Users :
          b # llamada'.user_id => LecturasDe(b)' = LecturasDe(b) ]_vars

\* The Tramite table without the transactions of shop papeleria_id.
SinPapeleria(T, papeleria_id) ==
    SelectSeq(T, LAMBDA t : t.papeleria_id # papeleria_id)

\* The soft-deleted shops.
Inactivas == { i \in 1..Len(papelerias) : ~papelerias[i].is_active }

\* The reports that C9 lists, computed on the Tramite table T.
MetricasDe(T, user_id) ==
    [monthly_summary |-> GetMonthlySummary(T, gastos, user_id, SinFecha, SinFecha),
     monthly_summary_rango |->
         GetMonthlySummary(T, gastos, user_id, Algun(Fecha2), Algun(Fecha1)),
     tramites_distribution |-> GetTramitesDistribution(T, user_id, TopLimit),
     top_by_ganancia |-> GetTopByGanancia(T, user_id, TopLimit),
     totales_comparativa |-> GetTotalesComparativa(T, user_id),
     meta_mensual_progress |-> GetMetaMensualProgress(T, user_id, MetaObjetivo),
     mejor_mes_historico |-> GetMejorMesHistorico(T, user_id),
     dias_mas_productivos |-> GetDiasMasProductivos(T, user_id),
     margen_promedio |-> GetMargenPromedio(T, user_id),
     roi_por_papeleria |-> GetRoiPorPapeleria(T, user_id),
     rentabilidad_por_tramite |-> GetRentabilidadPorTramite(T, user_id)]

\* C9: while a shop is soft-deleted none of its transactions contributes to
\* the monthly summary, the distribution, the top by profit, the period
\* comparative or the analytics metrics: each report of each tenant is what
\* it would be with the shop's transactions removed from the table.
C9_InactivaNoContribuye ==
    \A s \in Inactivas, u \in Users :
        MetricasDe(tramites, u) = MetricasDe(SinPapeleria(tramites, s), u)

\* Tenant 1 has just soft-deleted shop 1, which holds all the transactions
\* the tenant has: the reports show none of them.
C9_Witness ==
    /\ llamada.op = "delete"
    /\ llamada.user_id = 1
    /\ llamada.papeleria_id = 1
    /\ 1 \in Inactivas
    /\ Len(SelectSeq(tramites, LAMBDA t : t.user_id = 1 /\ t.papeleria_id = 1))
           = MaxTramites
    /\ GetTramitesDistribution(tramites, 1, TopLimit) = { <<>> }
    /\ GetMonthlySummary(tramites, gastos, 1, SinFecha, SinFecha).totals.total_ingresos
           = 0

\* C10: the grand totals of get_total_general count only the transactions
\* of active shops; in particular, once a call has soft-deleted a shop, each
\* tenant's totals are what they would be with that shop's transactions
\* removed from the table.
C10_TotalGeneralSoloActivas ==
    [][ \A s \in Inactivas' \ Inactivas, u \in Users :
          GetTotalGeneral(tramites, u)'
              = GetTotalGeneral(SinPapeleria(tramites, s), u)' ]_vars

(***************************************************************************)
(* Claims about the monthly summary.                                       *)
(***************************************************************************)
\* Months counted from year 0, and back.
NumMes(f) == f.y * 12 + (f.m - 1)
MesNumero(n) == <<n \div 12, (n % 12) + 1>>

ConRango(l) ==
    /\ ~l.fecha_inicio.es_none /\ l.fecha_inicio.v # <<>>
    /\ ~l.fecha_fin.es_none /\ l.fecha_fin.v # <<>>

\* The first and the last day the call asks about: the given range, or the
\* twelve months that end with today's.
PrimerDia(l) ==
    IF ConRango(l) THEN Strptime(l.fecha_inicio.v).v
    ELSE Fecha(MesNumero(NumMes(hoy) - 11)[1], MesNumero(NumMes(hoy) - 11)[2], 1)
UltimoDia(l) == IF ConRango(l) THEN Strptime(l.fecha_fin.v).v ELSE hoy

\* The tenant has no Tramite and no Gasto row dated in the month.
MesSinDatos(user_id, mes) ==
    /\ \A i \in 1..Len(tramites) :
          tramites[i].user_id = user_id => MesDe(tramites[i].fecha) # mes
    /\ \A i \in 1..Len(gastos) :
          gastos[i].user_id = user_id => MesDe(gastos[i].fecha) # mes

\* C11: get_monthly_summary returns one row per calendar month from the
\* month of the range start through the month of the range end, ascending,
\* without gap or duplicate, whatever the data; a month without data has
\* ingresos, gastos and ganancias 0; without a custom range the rows are the
\* 12 months that end with the current month.
C11_UnaFilaPorMes ==
    llamada.op = "get_monthly_summary" =>
        LET md == ret.valor.monthly_data
            primero == NumMes(PrimerDia(llamada))
            n == NumMes(UltimoDia(llamada)) - primero + 1
        IN  /\ Len(md) = (IF n > 0 THEN n ELSE 0)
            /\ \A i \in 1..Len(md) :
                  /\ md[i].month = MesNumero(primero + i - 1)
                  /\ MesSinDatos(llamada.user_id, md[i].month) =>
                        /\ md[i].ingresos = 0
                        /\ md[i].gastos = 0
                        /\ md[i].ganancias = 0
            /\ ~ConRango(llamada) =>
                  /\ Len(md) = 12
                  /\ md[12].month = MesDe(hoy)

\* C11 witness: a summary of the default twelve months in which the current
\* month has income and another month has no data.
C11_Witness ==
    /\ llamada.op = "get_monthly_summary"
    /\ ~ConRango(llamada)
    /\ Len(ret.valor.monthly_data) = 12
    /\ ret.valor.monthly_data[12].ingresos > 0
    /\ MesSinDatos(llamada.user_id, ret.valor.monthly_data[5].month)
    /\ ret.valor.monthly_data[5].ingresos = 0

\* The tenant's Tramite rows of active shops, and Gasto rows, dated in mes
\* and within desde..hasta.
TramitesDelMes(user_id, mes, desde, hasta) ==
    SelectSeq(tramites, LAMBDA t :
        /\ t.user_id = user_id
        /\ t.papeleria_id \in 1..Len(papelerias)
        /\ papelerias[t.papeleria_id].is_active
        /\ MesDe(t.fecha) = mes
        /\ FechaLE(desde, t.fecha) /\ FechaLE(t.fecha, hasta))
GastosDelMes(user_id, mes, desde, hasta) ==
    SelectSeq(gastos, LAMBDA g :
        /\ g.user_id = user_id
        /\ MesDe(g.fecha) = mes
        /\ FechaLE(desde, g.fecha) /\ FechaLE(g.fecha, hasta))

\* The rows and totals of a summary are those of the rows dated desde..hasta.
ResumenCorrecto(desde, hasta) ==
    LET md == ret.valor.monthly_data
        tot == ret.valor.totals
        u == llamada.user_id
    IN  /\ \A i \in 1..Len(md) :
              /\ md[i].ingresos =
                   SumaCampo(TramitesDelMes(u, md[i].month, desde, hasta), "precio")
              /\ md[i].gastos =
                   SumaCampo(TramitesDelMes(u, md[i].month, desde, hasta), "costo")
                   + SumaCampo(GastosDelMes(u, md[i].month, desde, hasta), "monto")
              /\ md[i].ganancias = md[i].ingresos - md[i].gastos
        /\ tot.total_ingresos = SumaCampo(md, "ingresos")
        /\ tot.total_gastos = SumaCampo(md, "gastos")
        /\ tot.total_ganancia = SumaCampo(md, "ganancias")

SiempreAntes == Fecha(1, 1, 1)
SiempreDespues == Fecha(9999, 12, 31)

\* C12 as stated: in each month row ingresos is the sum of the prices of
\* the tenant's active-shop transactions in that month, gastos the sum of
\* their costs plus the tenant's Gasto amounts in that month, ganancias
\* their difference, and the totals are the column sums.
C12_FilaSumaElMes ==
    llamada.op = "get_monthly_summary" =>
        ResumenCorrecto(SiempreAntes, SiempreDespues)

\* C12 amended: the same sums, over the rows of the month that are dated
\* from the first day of the range's first month through the range's last
\* day (today when no range is given).
C12_FilaSumaElMesEnRango ==
    llamada.op = "get_monthly_summary" =>
        ResumenCorrecto(InicioDeMes(PrimerDia(llamada)), UltimoDia(llamada))

\* C12 witness: a month row with the price of a transaction as income and
\* its cost plus a Gasto amount as expense, while a later row of the same
\* month lies past the last day of the range.
C12_Witness ==
    /\ llamada.op = "get_monthly_summary"
    /\ \E i \in 1..Len(ret.valor.monthly_data) :
          /\ ret.valor.monthly_data[i].ingresos = 50
          /\ ret.valor.monthly_data[i].gastos = 27
          /\ ret.valor.monthly_data[i].ganancias = 23
          /\ \E k \in 1..Len(tramites) :
                /\ tramites[k].user_id = llamada.user_id
                /\ MesDe(tramites[k].fecha) = ret.valor.monthly_data[i].month
                /\ ~FechaLE(tramites[k].fecha, UltimoDia(llamada))

(***************************************************************************)
(* Claims about add_bulk and the reports that follow it.                   *)
(***************************************************************************)
\* The three reports after q transactions of price p and cost c, dated d,
\* were put in shop papeleria_id of tenant user_id, on the table T.
InformesTrasVenta(T, papeleria_id, tramite, user_id, fecha, p, c, q) ==
    /\ \A top \in GetTopByGanancia(T, user_id, TopLimit) :
          \E k \in 1..Len(top) :
              /\ top[k].nombre = papelerias[papeleria_id].nombre
              /\ top[k].ganancia_total = q * (p - c)
    /\ \A dist \in GetTramitesDistribution(T, user_id, TopLimit) :
          \E k \in 1..Len(dist) :
              /\ dist[k].tramite_label = tramite
              /\ dist[k].total_count = q
    /\ \A r \in { <<SinFecha, SinFecha>>, <<Algun(fecha), Algun(fecha)>> } :
          \E k \in 1..Len(GetMonthlySummary(T, <<>>, user_id, r[1], r[2]).monthly_data) :
              LET fila == GetMonthlySummary(T, <<>>, user_id, r[1], r[2]).monthly_data[k]
              IN  /\ fila.month = MesDe(Strptime(fecha).v)
                  /\ fila.ingresos = q * p
                  /\ fila.gastos = q * c
                  /\ fila.ganancias = q * (p - c)

\* C13: from a store without transactions or expenses, add_bulk of q
\* transactions of type T, price p, cost c and date d to an active shop S of
\* the tenant makes get_top_by_ganancia report q*(p-c) for S,
\* get_tramites_distribution report count q for T, and get_monthly_summary
\* over a range that contains d report income q*p, expense q*c and profit
\* q*(p-c) for the month of d.
C13_DeExtremoAExtremo ==
    [][ \A i \in IdsDeVenta, v \in Ventas, u \in Users, q \in Cantidades :
          ( /\ tramites = <<>>
            /\ gastos = <<>>
            /\ i \in PapeleriasActivasDe(u)
            /\ Strptime(v.fecha).ok
            /\ AddBulk(i, v.tramite, u, v.fecha, v.precio, v.costo, q) )
          => InformesTrasVenta(tramites', i, v.tramite, u, v.fecha,
                               v.precio.n, v.costo.n, q) ]_vars

\* C13 witness: two transactions of 50 at cost 20 are the only data, in an
\* active shop of its tenant, and the top reports 60 for it.
C13_Witness ==
    /\ llamada.op = "add_bulk"
    /\ ret.status = "ok"
    /\ Len(tramites) = 2
    /\ nextTramite = 3
    /\ tramites[2] = [tramites[1] EXCEPT !.id = 2]
    /\ tramites[1].papeleria_id \in PapeleriasActivasDe(tramites[1].user_id)
    /\ tramites[1].precio = 50 /\ tramites[1].costo = 20
    /\ \A top \in GetTopByGanancia(tramites, tramites[1].user_id, TopLimit) :
          \E k \in 1..Len(top) : top[k].ganancia_total = 60

(***************************************************************************)
(* Claims about the reads with a date range.                               *)
(***************************************************************************)
\* C14: get_top_by_ganancia lists an active shop of the tenant that has no
\* transaction (or none within the date filter) with profit 0, without a
\* date filter and with both fecha_inicio and fecha_fin given; so with at
\* most limit active shops every one of them is in the result.
C14_SinVentasGananciaCero ==
    llamada.op = "get_top_by_ganancia" =>
        \A top \in ret.valor :
            \A p \in PapeleriasActivasDe(llamada.user_id) :
                FiltroFecha(TramitesDePapeleria(tramites, p),
                            llamada.fecha_inicio, llamada.fecha_fin) = <<>>
                => \E k \in 1..Len(top) :
                       /\ top[k].nombre = papelerias[p].nombre
                       /\ top[k].ganancia_total = 0

(***************************************************************************)
(* Claims about the comparison of periods.                                 *)
(***************************************************************************)
Abs(x) == IF x < 0 THEN 0 - x ELSE x

\* C15: the percentage change is 100 when the previous value is 0 and the
\* current one is positive, 0 when the previous value is 0 and the current
\* one is not positive, and otherwise (current - previous) / previous * 100
\* rounded to one decimal (kept in tenths: no tenth is nearer).
C15_PorcentajeDeCambio ==
    llamada.op = "calcular_porcentaje" =>
        LET actual == llamada.actual
            anterior == llamada.anterior
        IN  IF anterior = 0
            THEN ret.valor = (IF actual > 0 THEN 1000 ELSE 0)
            ELSE 2 * Abs(ret.valor * anterior - (actual - anterior) * 1000)
                    <= Abs(anterior)

\* C15 witness: from 3 to 1 the change is -66.7; the spec's examples
\* (0, 50 -> 100; 0, 0 -> 0; 100, 150 -> 50.0) are the states next to it.
C15_Witness ==
    /\ llamada.op = "calcular_porcentaje"
    /\ llamada.anterior = 3
    /\ llamada.actual = 1
    /\ ret.valor = 0 - 667
    /\ CalcularPorcentaje(50, 0) = 1000
    /\ CalcularPorcentaje(0, 0) = 0
    /\ CalcularPorcentaje(150, 100) = 500

\* The profit of the tenant's active-shop transactions dated desde..hasta.
GananciaEntre(user_id, desde, hasta) ==
    Ganancia(TramitesDelMes(user_id, MesDe(desde), desde, hasta))

\* C16: the current-period figures of get_totales_comparativa and the
\* month-to-date profit of get_meta_mensual_progress count only the
\* transactions dated from the first day of the current month through
\* today; the previous-period figures are those of the preceding calendar
\* month; a transaction dated after today is in neither period.
C16_PeriodosHastaHoy ==
    LET u == llamada.user_id
        este_mes == GananciaEntre(u, InicioDeMes(hoy), hoy)
        mes_anterior == GananciaEntre(u, MasMeses(InicioDeMes(hoy), -1),
                                      MenosUnDia(InicioDeMes(hoy)))
    IN  /\ llamada.op = "get_totales_comparativa" =>
              /\ ret.valor.ganancia_actual = este_mes
              /\ ret.valor.ganancia_anterior = mes_anterior
        /\ llamada.op = "get_meta_mensual_progress" =>
              ret.valor.ganancia_actual = este_mes

(***************************************************************************)
(* Claims about the return on investment per shop.                         *)
(***************************************************************************)
IngresosDe(p) == SumaCampo(TramitesDePapeleria(tramites, p), "precio")
CostosDe(p) == SumaCampo(TramitesDePapeleria(tramites, p), "costo")

\* A list get_roi_por_papeleria may return: at most 5 rows in descending
\* order of roi, each the row of an active shop of the tenant whose
\* transactions cost more than 0 in total, with a roi that RoiDe accepts.
ListaRoiCorrecta(lista, user_id, RoiDe) ==
    /\ Len(lista) <= 5
    /\ \A k \in 1..(Len(lista) - 1) : lista[k].roi >= lista[k + 1].roi
    /\ \A k \in 1..Len(lista) :
          \E p \in PapeleriasActivasDe(user_id) :
              /\ papelerias[p].nombre = lista[k].nombre
              /\ CostosDe(p) > 0
              /\ <<lista[k].roi, p>> \in RoiDe

\* roi, in tenths of a percent, is exactly (income - cost) / cost * 100
RoiExacto ==
    { par \in (-1000..100000) \X (1..Len(papelerias)) :
        par[1] * CostosDe(par[2]) = (IngresosDe(par[2]) - CostosDe(par[2])) * 1000 }

\* roi is a tenth of a percent nearest to (income - cost) / cost * 100
RoiRedondeado ==
    { par \in (-1000..100000) \X (1..Len(papelerias)) :
        2 * Abs(par[1] * CostosDe(par[2])
                - (IngresosDe(par[2]) - CostosDe(par[2])) * 1000)
          <= Abs(CostosDe(par[2])) }

\* C17 as stated: get_roi_por_papeleria never returns a shop whose
\* transactions cost exactly 0 in total, returns at most 5 shops in
\* descending order of roi, and every returned shop is an active shop of the
\* tenant with total cost > 0 and roi = (income - cost) / cost * 100.
C17_RoiSinCostoCero ==
    llamada.op = "get_roi_por_papeleria" =>
        \A lista \in ret.valor :
            ListaRoiCorrecta(lista, llamada.user_id, RoiExacto)

\* C17 amended: the same, with roi = (income - cost) / cost * 100 rounded to
\* one decimal.
C17_RoiRedondeadoSinCostoCero ==
    llamada.op = "get_roi_por_papeleria" =>
        \A lista \in ret.valor :
            ListaRoiCorrecta(lista, llamada.user_id, RoiRedondeado)

\* C17 witness: six active shops of the tenant have a positive total cost
\* and five are returned, while a shop with income 50 and cost 0 is left
\* out in another store (the states differ in shop 1's transaction only).
C17_Witness ==
    /\ llamada.op = "get_roi_por_papeleria"
    /\ llamada.user_id = 1
    /\ Cardinality({ p \in PapeleriasActivasDe(1) : CostosDe(p) > 0 }) = 6
    /\ \A lista \in ret.valor : Len(lista) = 5

\* A shop with income and total cost 0 is not returned.
C17_WitnessCostoCero ==
    /\ llamada.op = "get_roi_por_papeleria"
    /\ llamada.user_id = 1
    /\ IngresosDe(1) = 50 /\ CostosDe(1) = 0
    /\ \A lista \in ret.valor :
          \A k \in 1..Len(lista) : lista[k].nombre # papelerias[1].nombre

\* C18: add_bulk with cantidad q >= 1 adds exactly q Tramite rows, all with
\* the shop, type, tenant, date, price and cost given, and the ids of all
\* rows stay pairwise distinct; if the call fails no row is added.
C18_AddBulkTodasONinguna ==
    [][ \A i \in IdsDeVenta, v \in Ventas, u \in Users, q \in Cantidades :
          AddBulk(i, v.tramite, u, v.fecha, v.precio, v.costo, q) =>
            IF ret'.status = "ok"
            THEN /\ Len(tramites') = Len(tramites) + q
                 /\ SubSeq(tramites', 1, Len(tramites)) = tramites
                 /\ \A k \in (Len(tramites) + 1)..Len(tramites') :
                       /\ tramites'[k].papeleria_id = i
                       /\ tramites'[k].tramite = v.tramite
                       /\ tramites'[k].user_id = u
                       /\ tramites'[k].fecha = Strptime(v.fecha).v
                       /\ tramites'[k].precio = v.precio.n
                       /\ tramites'[k].costo = v.costo.n
                 /\ \A k, m \in 1..Len(tramites') :
                       k # m => tramites'[k].id # tramites'[m].id
            ELSE tramites' = tramites ]_vars

\* C18 witness: add_bulk has filled the table with two rows of the kind
\* "CURP" that differ in their ids only.
C18_Witness ==
    /\ llamada.op = "add_bulk"
    /\ ret.status = "ok"
    /\ Len(tramites) = 2
    /\ tramites[1].tramite = "CURP"
    /\ tramites[2] = [tramites[1] EXCEPT !.id = tramites[2].id]
    /\ tramites[2].id # tramites[1].id

\* C18 witness of the failing call: a date that is no date leaves the
\* table as it was.
C18_WitnessFallo ==
    /\ llamada.op = "add_bulk"
    /\ ret.status = "ValueError"
    /\ Len(tramites) = 1

\* A date as a number that grows with the date.
DiaNum(f) == f.y * 10000 + f.m * 100 + f.d

\* The rows the claim keeps: all of them unless both bounds are given, and
\* then those dated from fecha_inicio through fecha_fin, both included.
Dentro(rows, l) ==
    IF ConRango(l)
    THEN SelectSeq(rows, LAMBDA r :
            /\ DiaNum(Strptime(l.fecha_inicio.v).v) <= DiaNum(r.fecha)
            /\ DiaNum(r.fecha) <= DiaNum(Strptime(l.fecha_fin.v).v))
    ELSE rows

\* What each read returns when it is given the rows of Dentro and no range.
LecturaSobreDentro(l) ==
    LET u == l.user_id
        T == Dentro(tramites, l)
        G == Dentro(gastos, l)
    IN  /\ l.op = "get_top_by_ganancia" =>
              /\ ~ConRango(l) => ret.valor = GetTopByGanancia(tramites, u, TopLimit)
              /\ \A top \in ret.valor : \A k \in 1..Len(top) :
                    \E p \in PapeleriasActivasDe(u) :
                        /\ top[k].nombre = papelerias[p].nombre
                        /\ top[k].ganancia_total = Ganancia(TramitesDePapeleria(T, p))
        /\ l.op = "get_tramites_distribution" =>
              ret.valor = GetTramitesDistribution(T, u, TopLimit)
        /\ l.op = "get_total_general" =>
              ret.valor = GetTotalGeneral(T, u)
        /\ l.op = "total_por_papeleria" =>
              ret.valor = TotalPorPapeleria(T, l.arg, u, SinFecha, SinFecha)
        /\ l.op = "get_details_for_papeleria" =>
              ret.valor = GetDetailsForPapeleria(T, l.arg, u, SinFecha, SinFecha,
                                                 1, PerPage)
        /\ l.op = "get_gastos_distribution" =>
              ret.valor = GetGastosDistribution(G, u, SinFecha, SinFecha)
        /\ l.op = "get_gastos_summary" =>
              ret.valor = GetGastosSummary(G, u, SinFecha, SinFecha, l.arg)
        /\ l.op = "gastos_get_all" =>
              ret.valor = GastoGetAll(G, u, 1, PerPage, SinFecha, SinFecha, l.arg)

C19_WitnessUnaCota ==
    /\ llamada.op = "gastos_get_all"
    /\ ~llamada.fecha_inicio.es_none /\ llamada.fecha_inicio.v # <<>>
    /\ llamada.fecha_fin.es_none
    /\ ret.valor.total = 1
    /\ DiaNum(ret.valor.items[1].fecha) < DiaNum(Strptime(llamada.fecha_inicio.v).v)

(***************************************************************************)
(* Claims about the default costs.                                         *)
(***************************************************************************)
\* At most one TramiteCosto row for each tenant and type name.
UnaFilaPorPar(C) ==
    \A i, j \in 1..Len(C) :
        (C[i].tramite = C[j].tramite /\ C[i].user_id = C[j].user_id) => i = j

\* C20: before any set_costo, get_costo_for_tramite returns None for every
\* tenant and type name; after every set_costo there is at most one
\* TramiteCosto row for each tenant and type name, get_costo_for_tramite
\* returns for the call's tenant and type name the value the call gave (the
\* value it had, if the call raised), and for every other tenant or type
\* name what it returned before.
C20_UnCostoPorTenantYTipo ==
    /\ \A t \in TiposTramite, u \in Users :
          GetCostoForTramite(tramiteCostos, t, u) = { Ninguno }
    /\ [][ /\ UnaFilaPorPar(tramiteCostos')
           /\ \A t \in TiposTramite, c \in CostosDados, u \in Users :
                SetCosto(t, c, u) =>
                  /\ GetCostoForTramite(tramiteCostos', t, u) =
                       IF Float(c).ok THEN { Algun(Float(c).v) }
                       ELSE GetCostoForTramite(tramiteCostos, t, u)
                  /\ \A t2 \in TiposTramite, u2 \in Users :
                        <<t2, u2>> # <<t, u>> =>
                          GetCostoForTramite(tramiteCostos', t2, u2)
                            = GetCostoForTramite(tramiteCostos, t2, u2) ]_vars

\* C20 witness: tenant 1 set the cost of "ACTA" before tenant 2 set any
\* (its row is the first), and has just set it again, to 25; tenant 2's
\* cost of "ACTA" is still 20.
C20_Witness ==
    /\ llamada.op = "set_costo"
    /\ ret.status = "ok"
    /\ llamada.user_id = 1
    /\ llamada.tramite = "ACTA"
    /\ Len(tramiteCostos) = 2
    /\ tramiteCostos[1].user_id = 1
    /\ tramiteCostos[2].user_id = 2
    /\ GetCostoForTramite(tramiteCostos, "ACTA", 1) = { Algun(25) }
    /\ GetCostoForTramite(tramiteCostos, "ACTA", 2) = { Algun(20) }

(***************************************************************************)
(* Claims about suppliers, expenses and the editing of single rows.        *)
(***************************************************************************)
\* C21: a supplier that an expense names is never removed by
\* ProveedorRepository.delete: in every reachable state the proveedor_id of
\* each Gasto row is the id of a Proveedor row.
C21_GastoConProveedor ==
    \A g \in Rango(gastos) : \E p \in Rango(proveedores) : p.id = g.proveedor_id

\* The shop a delete call is entitled to close: the id names a row, the row
\* is the caller's and it is active.
EsActivaDe(P, papeleria_id, user_id) ==
    /\ papeleria_id \in 1..Len(P)
    /\ P[papeleria_id].user_id = user_id
    /\ P[papeleria_id].is_active

\* C22: delete(papeleria_id, user_id) sets is_active to false only when the
\* id names an active shop of user_id; when the id names no shop, the shop
\* is inactive already or it is another tenant's, the call changes no row
\* and raises nothing.
C22_DeleteSoloLaPropiaActiva ==
    [][ llamada'.op = "delete" =>
          /\ ret'.status = "ok"
          /\ Len(papelerias') = Len(papelerias)
          /\ IF EsActivaDe(papelerias, llamada'.papeleria_id, llamada'.user_id)
             THEN papelerias' = [papelerias EXCEPT
                                   ![llamada'.papeleria_id].is_active = FALSE]
             ELSE papelerias' = papelerias ]_vars

\* C22 witness: a delete by tenant 2 of the active shop of tenant 1 has
\* left the shop active.
C22_Witness ==
    /\ llamada.op = "delete"
    /\ llamada.papeleria_id \in 1..Len(papelerias)
    /\ papelerias[llamada.papeleria_id].user_id # llamada.user_id
    /\ papelerias[llamada.papeleria_id].is_active

\* C22 witness: a delete by the owner has closed the shop.
C22_WitnessCerrada ==
    /\ llamada.op = "delete"
    /\ llamada.papeleria_id \in 1..Len(papelerias)
    /\ papelerias[llamada.papeleria_id].user_id = llamada.user_id
    /\ ~papelerias[llamada.papeleria_id].is_active

\* C22 witness: a delete of an id that names no shop.
C22_WitnessSinFila ==
    /\ llamada.op = "delete"
    /\ llamada.papeleria_id > Len(papelerias)

(***************************************************************************)
(* Claims about add calls in flight.                                       *)
(***************************************************************************)
\* Both calls are for the same tenant and normalized name and both have
\* passed the two checks.
AmbasPorInsertar ==
    /\ \A p \in Procesos : enCurso[p].pc = "insertar"
    /\ enCurso[1].nombre = enCurso[2].nombre
    /\ enCurso[1].user_id = enCurso[2].user_id

\* C23: the check-then-insert sequence of add is not isolated: a call that
\* has passed the active-exists and inactive-exists checks goes on to its
\* insert whatever has been committed since, so two calls with the same
\* tenant and normalized name that both passed the checks both insert.
\* The insert step never ends by the duplicate check; it adds one active
\* row of that tenant and name, or the store refuses the row.
C23_InsertaSinVolverAVerificar ==
    [][ \A p \in Procesos :
          (enCurso[p].pc = "insertar" /\ enCurso'[p].pc = "libre") =>
             /\ \A q \in Procesos \ {p} : enCurso'[q] = enCurso[q]
             /\ \/ /\ ret'.como = "creada"
                   /\ papelerias' = Append(papelerias,
                         [nombre |-> enCurso[p].nombre,
                          user_id |-> enCurso[p].user_id, is_active |-> TRUE])
                \/ /\ ret'.como = "integridad"
                   /\ papelerias' = papelerias ]_vars

\* C23 witness: two calls with the same tenant and normalized name have
\* both passed both checks and neither has committed.
C23_Witness ==
    /\ AmbasPorInsertar
    /\ PapeleriasConNombre(enCurso[1].nombre, enCurso[1].user_id, TRUE) = {}
    /\ PapeleriasConNombre(enCurso[1].nombre, enCurso[1].user_id, FALSE) = {}

\* C23 witness: both inserts went through, the second after the first had
\* committed: two active shops of one tenant with one name.
C23_WitnessDosActivas ==
    /\ llamada.op = "add_insertar"
    /\ ret.como = "creada"
    /\ Cardinality(PapeleriasConNombre(llamada.nombre, llamada.user_id, TRUE)) = 2
    /\ \A p \in Procesos : enCurso[p].pc = "libre"

(***************************************************************************)
(* Claims about the monthly goal.                                          *)
(***************************************************************************)
\* 2024-03-31 was a Sunday: a day is a Sunday when it is a whole number of
\* weeks away from it.
EsDomingo(f) == (Ordinal(f) - Ordinal(Fecha0)) % 7 = 0

\* Monday = 0 ... Sunday = 6, counted back to the last Monday
RECURSIVE DesdeElLunes(_)
DesdeElLunes(f) == IF EsDomingo(MenosUnDia(f)) THEN 0 ELSE DesdeElLunes(MenosUnDia(f)) + 1

\* C24: dias_restantes of get_meta_mensual_progress is the number of days
\* from today to the next Sunday: it is in 0..6, it is 0 exactly when today
\* is a Sunday, and otherwise it is 6 minus today's weekday counted from
\* Monday = 0.
C24_DiasHastaDomingo ==
    llamada.op = "get_meta_mensual_progress" =>
       LET d == ret.valor.dias_restantes
       IN  /\ d \in 0..6
           /\ (d = 0) <=> EsDomingo(hoy)
           /\ EsDomingo(MasDias(hoy, d))
           /\ \A k \in 0..(d - 1) : ~EsDomingo(MasDias(hoy, k))
           /\ ~EsDomingo(hoy) => d = 6 - DesdeElLunes(hoy)

\* C24 witness: the goal was read on a Wednesday, 2024-02-28, four days
\* before the Sunday 2024-03-03, across the leap day.
C24_Witness ==
    /\ llamada.op = "get_meta_mensual_progress"
    /\ hoy = Fecha(2024, 2, 28)
    /\ ret.valor.dias_restantes = 4

\* C24 witness: read on a Sunday, no day remains.
C24_WitnessDomingo ==
    /\ llamada.op = "get_meta_mensual_progress"
    /\ hoy = Fecha(2024, 12, 29)
    /\ ret.valor.dias_restantes = 0

\* C25: with a custom range, get_monthly_summary counts only the Tramite
\* and Gasto rows dated within fecha_inicio..fecha_fin, bounds included;
\* rows of the first month dated before fecha_inicio are in neither that
\* month's figures nor the totals.
C25_SoloDentroDelRango ==
    (llamada.op = "get_monthly_summary" /\ ConRango(llamada)) =>
        ResumenCorrecto(PrimerDia(llamada), UltimoDia(llamada))

(***************************************************************************)
(* Claims about closing and reopening a shop.                              *)
(***************************************************************************)
\* The step is the add that reopens the shop the call before it, a delete,
\* closed.
ReabreLaCerrada ==
    /\ llamada.op = "delete"
    /\ previo.cerro
    /\ llamada'.op = "add"
    /\ ret'.como = "reactivada"
    /\ ret'.id = llamada.papeleria_id

\* C26: delete changes nothing but the is_active flag of its target: no
\* Papeleria, Tramite or PapeleriaPrecio row is removed or altered, and the
\* number of Papeleria rows never decreases under add, delete and
\* update_name; so when add of the same name reopens the shop, the store is
\* what it was before the delete and get_default_precio gives what it gave
\* then.
C26_DeleteSoloCambiaLaBandera ==
    [][ /\ Len(papelerias') >= Len(papelerias)
        /\ llamada'.op = "delete" =>
              /\ precios' = precios
              /\ tramites' = tramites
              /\ gastos' = gastos
              /\ Len(papelerias') = Len(papelerias)
              /\ \A i \in 1..Len(papelerias) :
                    /\ papelerias'[i].nombre = papelerias[i].nombre
                    /\ papelerias'[i].user_id = papelerias[i].user_id
                    /\ i # llamada'.papeleria_id => papelerias'[i] = papelerias[i]
        /\ ReabreLaCerrada =>
              /\ papelerias' = previo.papelerias
              /\ precios' = previo.precios
              /\ tramites' = previo.tramites
              /\ \A i \in PapeleriaIds, u \in Users, t \in TiposTramite :
                    (i = llamada.papeleria_id /\ u = llamada.user_id) =>
                       GetDefaultPrecios(i, t, u)'
                         = { r.precio : r \in FilasPrecio(previo.precios, i, t) }
      ]_vars

\* C26 witness: shop 1, with a price and a transaction, was closed and
\* reopened; the store is as before the delete and the price is read again.
C26_Witness ==
    /\ llamada.op = "add"
    /\ ret.como = "reactivada"
    /\ ret.id = 1
    /\ previo.cerro
    /\ previo.papelerias[1].is_active
    /\ papelerias = previo.papelerias
    /\ GetDefaultPrecios(1, "ACTA", 1) = { 10 }
    /\ \E i \in 1..Len(tramites) : tramites[i].papeleria_id = 1

\* C26 witness: shop 1 is closed and its price is not read.
C26_WitnessCerrada ==
    /\ llamada.op = "delete"
    /\ previo.cerro
    /\ ~papelerias[1].is_active
    /\ GetDefaultPrecios(1, "ACTA", 1) = {}
    /\ FilasPrecio(precios, 1, "ACTA") # {}

(***************************************************************************)
(* Claims about set_precios_bulk and the shop it is called for.            *)
(***************************************************************************)
\* C27: set_precios_bulk for a papeleria_id that names no shop, a
\* soft-deleted shop or a shop of another tenant returns (None, [one
\* message]) without validating the prices and without creating or changing
\* a price row.
C27_SinPermisoNoTocaPrecios ==
    [][ (/\ llamada'.op = "set_precios_bulk"
         /\ ~EsActivaDe(papelerias, llamada'.papeleria_id, llamada'.user_id))
        => /\ ret'.valid_precios.es_none
           /\ ret'.errors = <<[error |-> "no_existe"]>>
           /\ precios' = precios ]_vars

\* C27 witness: tenant 2 gave a negative and a non-numeric price for the
\* shop of tenant 1, which has prices; one message came back.
C27_Witness ==
    /\ llamada.op = "set_precios_bulk"
    /\ llamada.papeleria_id = 1
    /\ llamada.user_id = 2
    /\ llamada.precios_data =
          << <<"ACTA", Str(<<"-", "5">>)>>, <<"CURP", Str(<<"a">>)>> >>
    /\ Len(ret.errors) = 1
    /\ FilasPrecio(precios, 1, "ACTA") # {}

\* C27 witness: valid prices for the soft-deleted shop of the caller.
C27_WitnessCerrada ==
    /\ llamada.op = "set_precios_bulk"
    /\ llamada.papeleria_id = 3
    /\ llamada.user_id = 1
    /\ ~papelerias[3].is_active
    /\ Invalidas(llamada.precios_data) = {}
    /\ llamada.precios_data # <<>>
    /\ ret.valid_precios.es_none

\* C27 witness: prices for an id that names no shop.
C27_WitnessSinFila ==
    /\ llamada.op = "set_precios_bulk"
    /\ llamada.papeleria_id > Len(papelerias)
    /\ ret.errors = <<[error |-> "no_existe"]>>

(***************************************************************************)
(* Claims about the editing of single rows.                                *)
(***************************************************************************)
\* The tenant has a row with that id in the table.
TieneFila(T, id, user_id) ==
    \E i \in 1..Len(T) : T[i].id = id /\ T[i].user_id = user_id

\* The step leaves the three edited tables as they were and raises nothing.
SinCambioNiError ==
    /\ tramites' = tramites
    /\ gastos' = gastos
    /\ proveedores' = proveedores
    /\ ret'.status = "ok"

\* C28: update and delete of TramiteRepository, GastoRepository and
\* ProveedorRepository, given an id that names no row or a row of another
\* tenant, leave every row as it was and raise nothing; in that case
\* TramiteRepository.delete returns None, and otherwise it returns the
\* papeleria_id of the row it deleted.
C28_EdicionAjenaSinEfecto ==
    [][ /\ (/\ llamada'.op \in { "tramite_update", "tramite_delete" }
            /\ ~TieneFila(tramites, llamada'.id, llamada'.user_id))
              => SinCambioNiError
        /\ (/\ llamada'.op \in { "gasto_update", "gasto_delete" }
            /\ ~TieneFila(gastos, llamada'.id, llamada'.user_id))
              => SinCambioNiError
        /\ (/\ llamada'.op \in { "proveedor_update", "proveedor_delete" }
            /\ ~TieneFila(proveedores, llamada'.id, llamada'.user_id))
              => SinCambioNiError
        /\ llamada'.op = "tramite_delete" =>
              IF TieneFila(tramites, llamada'.id, llamada'.user_id)
              THEN \E k \in 1..Len(tramites) :
                     /\ tramites[k].id = llamada'.id
                     /\ ret'.valor = Algun(tramites[k].papeleria_id)
                     /\ Len(tramites') = Len(tramites) - 1
                     /\ \A r \in Rango(tramites') : r.id # llamada'.id
              ELSE ret'.valor = Ninguno ]_vars

\* C28 witness: tenant 2 asked to delete transaction 1, a row of tenant 1;
\* None came back and the row is there.
C28_Witness ==
    /\ llamada.op = "tramite_delete"
    /\ llamada.user_id = 2
    /\ ret.valor = Ninguno
    /\ \E r \in Rango(tramites) : r.user_id = 1
    /\ \A r \in Rango(tramites) : r.user_id = 1

\* C28 witness: a transaction was deleted by its owner and the shop id came
\* back.
C28_WitnessBorrada ==
    /\ llamada.op = "tramite_delete"
    /\ ret.valor = Algun(1)
    /\ tramites = <<>>

\* C28 witness: an update of an expense with a date that is none, by a
\* tenant who has no expense, raised nothing.
C28_WitnessFechaMala ==
    /\ llamada.op = "gasto_update"
    /\ llamada.user_id = 2
    /\ ret.status = "ok"
    /\ gastos # <<>>
    /\ \A g \in Rango(gastos) : g.user_id = 1 /\ g.descripcion = <<"x">>

(***************************************************************************)
(* Claims about a price of zero.                                           *)
(***************************************************************************)
\* The price value is 0, given as a number or as a text that is a number.
EsCeroNumero(x) == x.tipo = "num" /\ x.n = 0
EsCeroTexto(x) == x.tipo = "str" /\ Strip(x.s) # <<>> /\ Float(x).ok /\ Float(x).v = 0

\* After the call of this step entry i of its precios_data has its rows of
\* (shop, type) with precio 0, and the call returned its prices.
CeroGuardado(i) ==
    LET data == llamada'.precios_data
        pid == llamada'.papeleria_id
    IN  /\ ~ret'.valid_precios.es_none
        /\ FilasPrecio(precios', pid, data[i][1]) # {}
        /\ \A r \in FilasPrecio(precios', pid, data[i][1]) : r.precio = 0

\* The call of this step reached the store with valid prices only and the
\* store worked.
LlamadaValida ==
    /\ LlegaAValidar
    /\ Invalidas(llamada'.precios_data) = {}
    /\ llamada'.fallo = -1

\* C29: set_precios_bulk accepts a price of zero and rejects only negative
\* prices: for every entry whose price is 0, given as the text "0" or as
\* the number 0, the call succeeds and afterwards the row of (shop, type)
\* exists with precio 0.
C29_CeroSeGuarda ==
    [][ LlamadaValida =>
          \A i \in 1..Len(llamada'.precios_data) :
             (\/ EsCeroTexto(llamada'.precios_data[i][2])
              \/ EsCeroNumero(llamada'.precios_data[i][2])) => CeroGuardado(i) ]_vars

\* What holds of C29: a zero given as text is stored.
C29_CeroTextoSeGuarda ==
    [][ LlamadaValida =>
          \A i \in 1..Len(llamada'.precios_data) :
             EsCeroTexto(llamada'.precios_data[i][2]) => CeroGuardado(i) ]_vars

(***************************************************************************)
(* Claims about update_old_costos.                                         *)
(***************************************************************************)
\* The default cost of the tenant for the type, if it has one.
TieneCostoDefault(tramite, user_id) == FilasCosto(tramiteCostos, tramite, user_id) # {}
CostoDefault(tramite, user_id) ==
    tramiteCostos[CHOOSE i \in FilasCosto(tramiteCostos, tramite, user_id) : TRUE].costo

\* The step is a call of update_old_costos that changed exactly the
\* caller's rows of cost 0 whose type has a default cost, set them to that
\* default, and returned how many rows it changed; and if the call before
\* it was the same call, it returned 0 and changed nothing.
ActualizaSoloLasViejas ==
    LET u == llamada'.user_id
    IN  /\ Len(tramites') = Len(tramites)
        /\ \A i \in 1..Len(tramites) :
              tramites'[i] =
                 IF /\ tramites[i].user_id = u
                    /\ tramites[i].costo = 0
                    /\ TieneCostoDefault(tramites[i].tramite, u)
                 THEN [tramites[i] EXCEPT !.costo = CostoDefault(tramites[i].tramite, u)]
                 ELSE tramites[i]
        /\ ret'.valor = Cardinality({ i \in 1..Len(tramites) :
                                        tramites'[i] # tramites[i] })
        /\ (llamada.op = "update_old_costos" /\ llamada.user_id = u) =>
              /\ ret'.valor = 0
              /\ tramites' = tramites

\* C30: update_old_costos(user_id) changes only the caller's transactions
\* of cost 0 whose type has a default cost, sets their cost to that
\* default and returns the number of rows it changed; a second call right
\* after the first returns 0 and changes no row.
C30_ActualizaYEsIdempotente ==
    [][ llamada'.op = "update_old_costos" => ActualizaSoloLasViejas ]_vars

\* What holds of C30: the same, for a tenant none of whose default costs
\* is 0.
C30_SinDefaultCero ==
    [][ (/\ llamada'.op = "update_old_costos"
         /\ \A i \in 1..Len(tramiteCostos) :
               tramiteCostos[i].user_id = llamada'.user_id
                  => tramiteCostos[i].costo # 0)
        => ActualizaSoloLasViejas ]_vars

====
